---- MODULE Spec2Model ----
(***************************************************************************)
(* A model of the SPIR-V generator of compiler/translator/OutputSPIRV.cpp: *)
(* the access chain engine, the binary-expression translator and the       *)
(* aggregate (function call, atomic built-in, constructor) translator.     *)
(*                                                                         *)
(* SPIR-V ids are integers, 0 being the invalid id.  A SPIR-V type id is   *)
(* the record of the type it interns, so that two requests for the same    *)
(* type yield the same id.  The current function block is the sequence of  *)
(* the instructions written to it.                                         *)
(***************************************************************************)
EXTENDS Integers, Sequences, FiniteSets, TLC

VARIABLES
    mNodeData,   \* the traversal stack of NodeData records
    astType,     \* the TType of the AST node each stack entry belongs to
    path,        \* the ancestors of the node being visited (traverser's path)
    mBuilder,    \* the SPIRVBuilder: ids, current block, variables, constants
    last,        \* the node handled by the last visit and what it was given
    pc           \* where the traversal stands

vars == <<mNodeData, astType, path, mBuilder, last, pc>>

(***************************************************************************)
(* Bounds of the model.                                                    *)
(***************************************************************************)
\* The deepest nesting of binary nodes above the node being visited.
MaxDepth == 1
\* The largest number of arguments of an aggregate node.
MaxArgs == 2

(***************************************************************************)
(* Types.                                                                  *)
(***************************************************************************)
NoId == 0

StorageClassMax == "Max"

EbsUnspecified == "EbsUnspecified"

BasicTypes == {"EbtFloat", "EbtInt", "EbtUInt", "EbtBool"}

\* A TType: basic type, shape, array size (0: not an array) and qualifier.
TType(basic, primary, secondary, arr, qual) ==
    [basic |-> basic, primarySize |-> primary, secondarySize |-> secondary,
     arraySize |-> arr, qualifier |-> qual]

isArray(t) == t.arraySize > 0

isVector(t) == t.primarySize > 1 /\ t.secondarySize = 1

isMatrix(t) == t.primarySize > 1 /\ t.secondarySize > 1

isScalar(t) == t.primarySize = 1 /\ t.secondarySize = 1 /\ ~isArray(t)

\* The invalid type id.
NoType ==
    [basic |-> "EbtVoid", primarySize |-> 0, secondarySize |-> 0,
     arraySize |-> 0, storageClass |-> "none"]

\* The id of the SPIR-V type of a TType (block storage unspecified).
getTypeData(t) ==
    [basic |-> t.basic, primarySize |-> t.primarySize,
     secondarySize |-> t.secondarySize, arraySize |-> t.arraySize,
     storageClass |-> "none"]

\* The id of the SPIR-V type of a bare SpirvType (basic type and size).
getSpirvTypeData(basic, primary) ==
    [basic |-> basic, primarySize |-> primary, secondarySize |-> 1,
     arraySize |-> 0, storageClass |-> "none"]

\* The id of the pointer type to typeId in a storage class.
getTypePointerId(typeId, storageClass) ==
    [typeId EXCEPT !.storageClass = storageClass]

\* The type of node[index] as the AST producer annotates it.
IndexedType(t) ==
    IF isArray(t) THEN [t EXCEPT !.arraySize = 0]
    ELSE IF isMatrix(t)
         THEN [t EXCEPT !.primarySize = t.secondarySize, !.secondarySize = 1]
         ELSE [t EXCEPT !.primarySize = 1]

\* The number of elements node[index] may select from.
IndexableSize(t) == IF isArray(t) THEN t.arraySize ELSE t.primarySize

\* The type of node.swizzle as the AST producer annotates it.
SwizzledType(t, swizzle) == [t EXCEPT !.primarySize = Len(swizzle)]

IsOpaqueType(basic) == basic \in {"EbtSampler2D", "EbtImage2D"}

\* The qualifiers of the built-in variables that are defined when first used.
ImplicitBuiltInQualifiers ==
    {"EvqVertexID", "EvqInstanceID", "EvqNumWorkGroups", "EvqWorkGroupID",
     "EvqLocalInvocationID", "EvqGlobalInvocationID", "EvqLocalInvocationIndex"}

GetStorageClass(t) ==
    CASE IsOpaqueType(t.basic) -> "UniformConstant"
      [] t.qualifier \in ImplicitBuiltInQualifiers -> "Input"
      [] t.qualifier = "EvqShared" -> "Workgroup"
      [] t.qualifier = "EvqGlobal" -> "Private"
      [] t.qualifier \in {"EvqTemporary", "EvqIn", "EvqOut", "EvqInOut"} -> "Function"
      [] OTHER -> "Private"

(***************************************************************************)
(* The builder.                                                            *)
(***************************************************************************)
\* An instruction: opcode, result type, result id, id operands, literals.
Instr(op, typeId, result, ids, lits) ==
    [op |-> op, type |-> typeId, result |-> result, ids |-> ids, lits |-> lits]

\* spirv::Write*(mBuilder.getSpirvCurrentFunctionBlock(), ...)
Write(st, instr) == [st EXCEPT !.block = Append(@, instr)]

\* mBuilder.getNewId(): the id handed out is st.nextId.
getNewId(st) == [st EXCEPT !.nextId = @ + 1]

\* The interned id of an unsigned constant; they live above every fresh id.
UintConstantBase == 1000

getUintConstant(value) == UintConstantBase + value

\* The interned ids of the float, int and bool constants.
FloatConstantBase == 2000

getFloatConstant(value) == FloatConstantBase + value

IntConstantBase == 3000

getIntConstant(value) == IntConstantBase + value

BoolConstantBase == 4000

getBoolConstant(value) == BoolConstantBase + (IF value THEN 1 ELSE 0)

\* mBuilder.declareVariable(): the variable's id is st.nextId.
declareVariable(st, typeId, storageClass, name) ==
    [st EXCEPT !.nextId = @ + 1,
               !.variables = Append(@, [id |-> st.nextId, type |-> typeId,
                                        storageClass |-> storageClass,
                                        name |-> name])]

\* A failed ASSERT is recorded; the release build goes on.
Check(st, cond, what) ==
    IF cond \/ st.failure # "none" THEN st ELSE [st EXCEPT !.failure = what]

\* The record of one call of an access chain operation in the last visit.
Logged(fn, data, value, st, out) ==
    [out EXCEPT !.st.log =
        Append(@, [fn |-> fn, data |-> data, value |-> value,
                   from |-> Len(st.block), to |-> Len(out.st.block),
                   varsFrom |-> Len(st.variables),
                   varsTo |-> Len(out.st.variables),
                   ret |-> out.id, after |-> out.data])]

\* One statement after another: the value of the first, named in the rest.
Bind(value, Rest(_)) == Rest(value)

(***************************************************************************)
(* NodeData and the access chain.                                          *)
(***************************************************************************)
EmptyAccessChain ==
    [storageClass |-> StorageClassMax, swizzles |-> <<>>,
     dynamicComponent |-> NoId, preSwizzleTypeId |-> NoType,
     postSwizzleTypeId |-> NoType, postDynamicComponentTypeId |-> NoType,
     accessChainId |-> NoId, areAllIndicesLiteral |-> TRUE,
     swizzledVectorComponentCount |-> 0, baseBlockStorage |-> EbsUnspecified]

EmptyNodeData == [baseId |-> NoId, idList |-> <<>>, accessChain |-> EmptyAccessChain]

\* SpirvIdOrLiteral: a literal when the id is invalid.
IdEntry(id) == [id |-> id, literal |-> 0]

LiteralEntry(literal) == [id |-> NoId, literal |-> literal]

IsAccessChainRValue(accessChain) == accessChain.storageClass = StorageClassMax

IsAccessChainUnindexedLValue(data) ==
    /\ ~IsAccessChainRValue(data.accessChain)
    /\ data.idList = <<>>
    /\ data.accessChain.swizzles = <<>>
    /\ data.accessChain.dynamicComponent = NoId

nodeDataInitLValue(baseId, typeId, storageClass, blockStorage) ==
    [EmptyNodeData EXCEPT !.baseId = baseId,
                          !.accessChain.preSwizzleTypeId = typeId,
                          !.accessChain.storageClass = storageClass,
                          !.accessChain.baseBlockStorage = blockStorage]

\* An initialisation that makes the record an lvalue of the Function class.
nodeDataInitRValueInFunction(baseId, typeId) ==
    nodeDataInitLValue(baseId, typeId, "Function", EbsUnspecified)

nodeDataInitRValue(baseId, typeId) ==
    [EmptyNodeData EXCEPT !.baseId = baseId,
                          !.accessChain.preSwizzleTypeId = typeId]

accessChainPush(data, index, typeId) ==
    [data EXCEPT !.idList = Append(@, IdEntry(index)),
                 !.accessChain.areAllIndicesLiteral = FALSE,
                 !.accessChain.preSwizzleTypeId = typeId]

accessChainPushLiteral(data, index, typeId) ==
    [data EXCEPT !.idList = Append(@, LiteralEntry(index)),
                 !.accessChain.preSwizzleTypeId = typeId]

\* ASSERT(accessChain.swizzles.empty()) stands before the push.
accessChainPushSwizzle(data, swizzle, typeId, componentCount, st) ==
    LET st0 == Check(st, data.accessChain.swizzles = <<>>, "accessChainPushSwizzle")
    IN  IF Len(swizzle) = 1
        THEN [data |-> accessChainPushLiteral(data, swizzle[1], typeId), st |-> st0]
        ELSE [data |-> [data EXCEPT
                          !.accessChain.swizzles = @ \o swizzle,
                          !.accessChain.postSwizzleTypeId = typeId,
                          !.accessChain.swizzledVectorComponentCount = componentCount],
              st |-> st0]

\* A push that keeps the dynamic component apart on every chain.
accessChainPushDynamicComponentApart(data, index, typeId, st) ==
    [data |-> [data EXCEPT !.accessChain.dynamicComponent = index,
                           !.accessChain.postDynamicComponentTypeId = typeId],
     st |-> st]

accessChainPushDynamicComponent(data, index, typeId, st) ==
    LET accessChain == data.accessChain
        st0 == Check(st, accessChain.dynamicComponent = NoId,
                     "accessChainPushDynamicComponent")
    IN  IF IsAccessChainRValue(accessChain) /\ accessChain.areAllIndicesLiteral
        THEN [data |-> [data EXCEPT
                          !.accessChain.dynamicComponent = index,
                          !.accessChain.postDynamicComponentTypeId = typeId],
              st |-> st0]
        ELSE IF accessChain.swizzles # <<>>
        THEN LET st1 == Check(st0, Len(accessChain.swizzles) > 1,
                              "accessChainPushDynamicComponent")
                 swizzleIds == [k \in 1..Len(accessChain.swizzles) |->
                                   getUintConstant(accessChain.swizzles[k])]
                 uintTypeId == getSpirvTypeData("EbtUInt", 1)
                 uvecTypeId == getSpirvTypeData("EbtUInt", Len(swizzleIds))
                 swizzlesId == st1.nextId
                 st2 == [getNewId(st1) EXCEPT !.constants =
                            Append(@, Instr("OpConstantComposite", uvecTypeId,
                                            swizzlesId, swizzleIds, <<>>))]
                 newIndex == st2.nextId
                 st3 == Write(getNewId(st2),
                              Instr("OpVectorExtractDynamic", uintTypeId, newIndex,
                                    <<swizzlesId, index>>, <<>>))
             IN  [data |-> accessChainPush(
                              [data EXCEPT !.accessChain.swizzles = <<>>],
                              newIndex, typeId),
                  st |-> st3]
        ELSE [data |-> accessChainPush(data, index, typeId), st |-> st0]

\* Literal indices are replaced by the ids of uint constants.
makeAccessChainIdList(data) ==
    [k \in 1..Len(data.idList) |->
        IF data.idList[k].id # NoId THEN data.idList[k].id
        ELSE getUintConstant(data.idList[k].literal)]

\* The literal path read from the last index to the first.
makeAccessChainLiteralListReversed(data) ==
    [k \in 1..Len(data.idList) |-> data.idList[Len(data.idList) + 1 - k].literal]

makeAccessChainLiteralList(data) ==
    [k \in 1..Len(data.idList) |-> data.idList[k].literal]

\* A collapse that does not check the storage class of the chain.
accessChainCollapseUnchecked(data, st) ==
    LET accessChain == data.accessChain
    IN  IF accessChain.accessChainId # NoId
        THEN [data |-> data, st |-> st, id |-> accessChain.accessChainId]
        ELSE IF data.idList = <<>>
        THEN [data |-> [data EXCEPT !.accessChain.accessChainId = data.baseId],
              st |-> st, id |-> data.baseId]
        ELSE LET indexIds == makeAccessChainIdList(data)
                 typePointerId == getTypePointerId(accessChain.preSwizzleTypeId,
                                                   accessChain.storageClass)
                 accessChainId == st.nextId
             IN  [data |-> [data EXCEPT !.accessChain.accessChainId = accessChainId],
                  st |-> Write(getNewId(st),
                               Instr("OpAccessChain", typePointerId, accessChainId,
                                     <<data.baseId>> \o indexIds, <<>>)),
                  id |-> accessChainId]

\* A collapse that forgets the access chain it has made.
accessChainCollapseAgain(data, st) ==
    LET accessChain == data.accessChain
        st0 == Check(st, accessChain.storageClass # StorageClassMax,
                     "accessChainCollapse")
    IN  IF data.idList = <<>>
        THEN [data |-> [data EXCEPT !.accessChain.accessChainId = data.baseId],
              st |-> st0, id |-> data.baseId]
        ELSE LET indexIds == makeAccessChainIdList(data)
                 typePointerId == getTypePointerId(accessChain.preSwizzleTypeId,
                                                   accessChain.storageClass)
                 accessChainId == st0.nextId
             IN  [data |-> [data EXCEPT !.accessChain.accessChainId = accessChainId],
                  st |-> Write(getNewId(st0),
                               Instr("OpAccessChain", typePointerId, accessChainId,
                                     <<data.baseId>> \o indexIds, <<>>)),
                  id |-> accessChainId]

accessChainCollapseBody(data, st) ==
    LET accessChain == data.accessChain
        st0 == Check(st, accessChain.storageClass # StorageClassMax,
                     "accessChainCollapse")
    IN  IF accessChain.accessChainId # NoId
        THEN [data |-> data, st |-> st0, id |-> accessChain.accessChainId]
        ELSE IF data.idList = <<>>
        THEN [data |-> [data EXCEPT !.accessChain.accessChainId = data.baseId],
              st |-> st0, id |-> data.baseId]
        ELSE LET indexIds == makeAccessChainIdList(data)
                 typePointerId == getTypePointerId(accessChain.preSwizzleTypeId,
                                                   accessChain.storageClass)
                 accessChainId == st0.nextId
             IN  [data |-> [data EXCEPT !.accessChain.accessChainId = accessChainId],
                  st |-> Write(getNewId(st0),
                               Instr("OpAccessChain", typePointerId, accessChainId,
                                     <<data.baseId>> \o indexIds, <<>>)),
                  id |-> accessChainId]

accessChainCollapse(data, st) ==
    Logged("accessChainCollapse", data, NoId, st, accessChainCollapseBody(data, st))

\* A load that makes the access chain on the value itself, without a
\* temporary variable.
LoadBaseInPlace(data, st) ==
    IF IsAccessChainRValue(data.accessChain) /\ data.idList = <<>>
    THEN [data |-> data, st |-> st, id |-> data.baseId]
    ELSE Bind(accessChainCollapse(
                  [data EXCEPT !.accessChain.storageClass =
                      IF IsAccessChainRValue(data.accessChain) THEN "Function"
                      ELSE @], st),
              LAMBDA col :
              [data |-> col.data,
               st |-> Write(getNewId(col.st),
                            Instr("OpLoad", data.accessChain.preSwizzleTypeId,
                                  col.st.nextId, <<col.id>>, <<>>)),
               id |-> col.st.nextId])

\* The rvalue / lvalue step of accessChainLoad.
LoadBase(data, st) ==
    LET accessChain == data.accessChain
    IN  IF IsAccessChainRValue(accessChain)
        THEN IF Len(data.idList) > 0
             THEN IF accessChain.areAllIndicesLiteral
                  THEN LET indexList == makeAccessChainLiteralList(data)
                           result == st.nextId
                       IN  [data |-> data,
                            st |-> Write(getNewId(st),
                                         Instr("OpCompositeExtract",
                                               accessChain.preSwizzleTypeId, result,
                                               <<data.baseId>>, indexList)),
                            id |-> result]
                  ELSE LET tempVar == st.nextId
                           st1 == declareVariable(st, accessChain.preSwizzleTypeId,
                                                  "Function", "indexable")
                           st2 == Write(st1, Instr("OpStore", NoType, NoId,
                                                   <<tempVar, data.baseId>>, <<>>))
                           data1 == [data EXCEPT !.baseId = tempVar,
                                                 !.accessChain.storageClass = "Function"]
                       IN  Bind(accessChainCollapse(data1, st2), LAMBDA col :
                            [data |-> col.data,
                             st |-> Write(getNewId(col.st),
                                          Instr("OpLoad", accessChain.preSwizzleTypeId,
                                                col.st.nextId, <<col.id>>, <<>>)),
                             id |-> col.st.nextId])
             ELSE [data |-> data, st |-> st, id |-> data.baseId]
        ELSE Bind(accessChainCollapse(data, st), LAMBDA col :
                 [data |-> col.data,
                  st |-> Write(getNewId(col.st),
                               Instr("OpLoad", accessChain.preSwizzleTypeId,
                                     col.st.nextId, <<col.id>>, <<>>)),
                  id |-> col.st.nextId])

\* The swizzle step of accessChainLoad.
LoadSwizzle(r) ==
    LET accessChain == r.data.accessChain
    IN  IF accessChain.swizzles # <<>>
        THEN LET st0 == Check(r.st, Len(accessChain.swizzles) > 1, "accessChainLoad")
                 result == st0.nextId
             IN  [data |-> r.data,
                  st |-> Write(getNewId(st0),
                               Instr("OpVectorShuffle", accessChain.postSwizzleTypeId,
                                     result, <<r.id, r.id>>, accessChain.swizzles)),
                  id |-> result]
        ELSE r

\* The dynamic component step of accessChainLoad.
LoadDynamicComponent(r) ==
    LET accessChain == r.data.accessChain
    IN  IF accessChain.dynamicComponent # NoId
        THEN LET st0 == Check(r.st, accessChain.swizzles = <<>>, "accessChainLoad")
                 result == st0.nextId
             IN  [data |-> r.data,
                  st |-> Write(getNewId(st0),
                               Instr("OpVectorExtractDynamic",
                                     accessChain.postDynamicComponentTypeId, result,
                                     <<r.id, accessChain.dynamicComponent>>, <<>>)),
                  id |-> result]
        ELSE r

accessChainLoadBody(data, st) ==
    LoadDynamicComponent(LoadSwizzle(LoadBase(data, st)))

accessChainLoad(data, st) ==
    Logged("accessChainLoad", data, NoId, st, accessChainLoadBody(data, st))

\* A mask that takes component j of the value without the offset past the
\* loaded vector.
StoreSwizzleListNoOffset(accessChain) ==
    LET count == accessChain.swizzledVectorComponentCount
        swizzles == accessChain.swizzles
        Overwrite[k \in 0..Len(swizzles)] ==
            IF k = 0 THEN [component \in 1..count |-> component - 1]
            ELSE [Overwrite[k - 1] EXCEPT ![swizzles[k] + 1] = k - 1]
    IN  Overwrite[Len(swizzles)]

\* The mask of the shuffle that overwrites the swizzled components: the
\* identity over the vector, entry swizzles[j] replaced by count + j.
StoreSwizzleList(accessChain) ==
    LET count == accessChain.swizzledVectorComponentCount
        swizzles == accessChain.swizzles
        Overwrite[k \in 0..Len(swizzles)] ==
            IF k = 0 THEN [component \in 1..count |-> component - 1]
            ELSE [Overwrite[k - 1] EXCEPT ![swizzles[k] + 1] = count + (k - 1)]
    IN  Overwrite[Len(swizzles)]

accessChainStoreBody(data, value, st) ==
    LET accessChain == data.accessChain
        st0 == Check(Check(st, Len(accessChain.swizzles) # 1, "accessChainStore"),
                     accessChain.dynamicComponent = NoId, "accessChainStore")
    IN  Bind(accessChainCollapse(data, st0), LAMBDA col :
        IF accessChain.swizzles # <<>>
        THEN LET loadResult == col.st.nextId
                 st1 == Write(getNewId(col.st),
                              Instr("OpLoad", accessChain.preSwizzleTypeId, loadResult,
                                    <<col.id>>, <<>>))
                 swizzleList == StoreSwizzleList(accessChain)
                 result == st1.nextId
                 st2 == Write(getNewId(st1),
                              Instr("OpVectorShuffle", accessChain.postSwizzleTypeId,
                                    result, <<loadResult, value>>, swizzleList))
             IN  [data |-> col.data,
                  st |-> Write(st2, Instr("OpStore", NoType, NoId,
                                          <<col.id, result>>, <<>>)),
                  id |-> NoId]
        ELSE [data |-> col.data,
              st |-> Write(col.st, Instr("OpStore", NoType, NoId,
                                         <<col.id, value>>, <<>>)),
              id |-> NoId])

accessChainStore(data, value, st) ==
    Logged("accessChainStore", data, value, st, accessChainStoreBody(data, value, st))

getAccessChainTypeId(data) ==
    IF data.accessChain.postDynamicComponentTypeId # NoType
    THEN data.accessChain.postDynamicComponentTypeId
    ELSE IF data.accessChain.postSwizzleTypeId # NoType
    THEN data.accessChain.postSwizzleTypeId
    ELSE data.accessChain.preSwizzleTypeId

(***************************************************************************)
(* Stack helpers.                                                          *)
(***************************************************************************)
Back(stack) == stack[Len(stack)]

PopBack(stack) == SubSeq(stack, 1, Len(stack) - 1)

SetBack(stack, x) == [stack EXCEPT ![Len(stack)] = x]

\* mBuilder.terminateCurrentFunctionBlock()
terminateCurrentFunctionBlock(st) == [st EXCEPT !.isTerminated = TRUE]

(***************************************************************************)
(* visitSymbol and visitSwizzle.                                           *)
(***************************************************************************)
\* A symbol node is its variable: the id mSymbolIdMap holds and its TType.
visitSymbol(symbol, stack) ==
    LET typeId == getTypeData(symbol.type)
    IN  IF symbol.type.qualifier = "EvqConst"
        THEN Append(stack, nodeDataInitRValue(symbol.id, typeId))
        ELSE Append(stack, nodeDataInitLValue(symbol.id, typeId,
                                              GetStorageClass(symbol.type),
                                              EbsUnspecified))

\* Whether the swizzle selects all the components of the vector in order.
IsIdentitySwizzle(swizzle, vectorComponentCount) ==
    /\ Len(swizzle) = vectorComponentCount
    /\ \A index \in 1..Len(swizzle) : swizzle[index] = index - 1

\* visitSwizzle at PostVisit; vectorType is the operand's type.
visitSwizzle(swizzle, vectorType, nodeType, stack, st) ==
    LET st0 == Check(st, Len(stack) >= 1, "visitSwizzle")
    IN  IF IsIdentitySwizzle(swizzle, vectorType.primarySize)
        THEN [stack |-> stack, st |-> st0]
        ELSE LET r == accessChainPushSwizzle(Back(stack), swizzle,
                                             getTypeData(nodeType),
                                             vectorType.primarySize, st0)
             IN  [stack |-> SetBack(stack, r.data), st |-> r.st]

(***************************************************************************)
(* visitBinary.                                                            *)
(***************************************************************************)
AssignmentOps ==
    {"EOpAssign", "EOpInitialize", "EOpAddAssign", "EOpSubAssign", "EOpMulAssign",
     "EOpDivAssign", "EOpIModAssign", "EOpVectorTimesScalarAssign",
     "EOpVectorTimesMatrixAssign", "EOpMatrixTimesScalarAssign",
     "EOpMatrixTimesMatrixAssign", "EOpBitShiftLeftAssign",
     "EOpBitShiftRightAssign", "EOpBitwiseAndAssign", "EOpBitwiseXorAssign",
     "EOpBitwiseOrAssign"}

IsAssignment(op) == op \in AssignmentOps

\* An opcode table whose integer division is always the signed one.
BinaryOpcodeSignedDiv(op, isFloat, isUnsigned, isBool) ==
    CASE op \in {"EOpAdd", "EOpAddAssign"} ->
            IF isFloat THEN "OpFAdd" ELSE "OpIAdd"
      [] op \in {"EOpSub", "EOpSubAssign"} ->
            IF isFloat THEN "OpFSub" ELSE "OpISub"
      [] op \in {"EOpMul", "EOpMulAssign"} ->
            IF isFloat THEN "OpFMul" ELSE "OpIMul"
      [] op \in {"EOpDiv", "EOpDivAssign"} ->
            IF isFloat THEN "OpFDiv"
            ELSE "OpSDiv"
      [] op \in {"EOpIMod", "EOpIModAssign"} ->
            IF isFloat THEN "OpFMod"
            ELSE IF isUnsigned THEN "OpUMod" ELSE "OpSMod"
      [] op \in {"EOpVectorTimesScalar", "EOpVectorTimesScalarAssign"} ->
            IF isFloat THEN "OpVectorTimesScalar" ELSE "OpIMul"
      [] op \in {"EOpVectorTimesMatrix", "EOpVectorTimesMatrixAssign"} ->
            "OpVectorTimesMatrix"
      [] op = "EOpMatrixTimesVector" -> "OpMatrixTimesVector"
      [] op \in {"EOpMatrixTimesScalar", "EOpMatrixTimesScalarAssign"} ->
            "OpMatrixTimesScalar"
      [] op \in {"EOpMatrixTimesMatrix", "EOpMatrixTimesMatrixAssign"} ->
            "OpMatrixTimesMatrix"
      [] op \in {"EOpEqual", "EOpEqualComponentWise"} ->
            IF isFloat THEN "OpFOrdEqual"
            ELSE IF isBool THEN "OpLogicalEqual" ELSE "OpIEqual"
      [] op \in {"EOpNotEqual", "EOpNotEqualComponentWise"} ->
            IF isFloat THEN "OpFUnordNotEqual"
            ELSE IF isBool THEN "OpLogicalNotEqual" ELSE "OpINotEqual"
      [] op \in {"EOpLessThan", "EOpLessThanComponentWise"} ->
            IF isFloat THEN "OpFOrdLessThan"
            ELSE IF isUnsigned THEN "OpULessThan" ELSE "OpSLessThan"
      [] op \in {"EOpGreaterThan", "EOpGreaterThanComponentWise"} ->
            IF isFloat THEN "OpFOrdGreaterThan"
            ELSE IF isUnsigned THEN "OpUGreaterThan" ELSE "OpSGreaterThan"
      [] op \in {"EOpLessThanEqual", "EOpLessThanEqualComponentWise"} ->
            IF isFloat THEN "OpFOrdLessThanEqual"
            ELSE IF isUnsigned THEN "OpULessThanEqual" ELSE "OpSLessThanEqual"
      [] op \in {"EOpGreaterThanEqual", "EOpGreaterThanEqualComponentWise"} ->
            IF isFloat THEN "OpFOrdGreaterThanEqual"
            ELSE IF isUnsigned THEN "OpUGreaterThanEqual"
            ELSE "OpSGreaterThanEqual"
      [] op \in {"EOpBitShiftLeft", "EOpBitShiftLeftAssign"} ->
            "OpShiftLeftLogical"
      [] op \in {"EOpBitShiftRight", "EOpBitShiftRightAssign"} ->
            IF isUnsigned THEN "OpShiftRightLogical"
            ELSE "OpShiftRightArithmetic"
      [] op \in {"EOpBitwiseAnd", "EOpBitwiseAndAssign"} -> "OpBitwiseAnd"
      [] op \in {"EOpBitwiseXor", "EOpBitwiseXorAssign"} -> "OpBitwiseXor"
      [] op \in {"EOpBitwiseOr", "EOpBitwiseOrAssign"} -> "OpBitwiseOr"
      [] OTHER -> "none"

\* The instruction writeBinaryOp is set to ("none": left null).
BinaryOpcode(op, isFloat, isUnsigned, isBool) ==
    CASE op \in {"EOpAdd", "EOpAddAssign"} ->
            IF isFloat THEN "OpFAdd" ELSE "OpIAdd"
      [] op \in {"EOpSub", "EOpSubAssign"} ->
            IF isFloat THEN "OpFSub" ELSE "OpISub"
      [] op \in {"EOpMul", "EOpMulAssign"} ->
            IF isFloat THEN "OpFMul" ELSE "OpIMul"
      [] op \in {"EOpDiv", "EOpDivAssign"} ->
            IF isFloat THEN "OpFDiv"
            ELSE IF isUnsigned THEN "OpUDiv" ELSE "OpSDiv"
      [] op \in {"EOpIMod", "EOpIModAssign"} ->
            IF isFloat THEN "OpFMod"
            ELSE IF isUnsigned THEN "OpUMod" ELSE "OpSMod"
      [] op \in {"EOpVectorTimesScalar", "EOpVectorTimesScalarAssign"} ->
            IF isFloat THEN "OpVectorTimesScalar" ELSE "OpIMul"
      [] op \in {"EOpVectorTimesMatrix", "EOpVectorTimesMatrixAssign"} ->
            "OpVectorTimesMatrix"
      [] op = "EOpMatrixTimesVector" -> "OpMatrixTimesVector"
      [] op \in {"EOpMatrixTimesScalar", "EOpMatrixTimesScalarAssign"} ->
            "OpMatrixTimesScalar"
      [] op \in {"EOpMatrixTimesMatrix", "EOpMatrixTimesMatrixAssign"} ->
            "OpMatrixTimesMatrix"
      [] op \in {"EOpEqual", "EOpEqualComponentWise"} ->
            IF isFloat THEN "OpFOrdEqual"
            ELSE IF isBool THEN "OpLogicalEqual" ELSE "OpIEqual"
      [] op \in {"EOpNotEqual", "EOpNotEqualComponentWise"} ->
            IF isFloat THEN "OpFUnordNotEqual"
            ELSE IF isBool THEN "OpLogicalNotEqual" ELSE "OpINotEqual"
      [] op \in {"EOpLessThan", "EOpLessThanComponentWise"} ->
            IF isFloat THEN "OpFOrdLessThan"
            ELSE IF isUnsigned THEN "OpULessThan" ELSE "OpSLessThan"
      [] op \in {"EOpGreaterThan", "EOpGreaterThanComponentWise"} ->
            IF isFloat THEN "OpFOrdGreaterThan"
            ELSE IF isUnsigned THEN "OpUGreaterThan" ELSE "OpSGreaterThan"
      [] op \in {"EOpLessThanEqual", "EOpLessThanEqualComponentWise"} ->
            IF isFloat THEN "OpFOrdLessThanEqual"
            ELSE IF isUnsigned THEN "OpULessThanEqual" ELSE "OpSLessThanEqual"
      [] op \in {"EOpGreaterThanEqual", "EOpGreaterThanEqualComponentWise"} ->
            IF isFloat THEN "OpFOrdGreaterThanEqual"
            ELSE IF isUnsigned THEN "OpUGreaterThanEqual"
            ELSE "OpSGreaterThanEqual"
      [] op \in {"EOpBitShiftLeft", "EOpBitShiftLeftAssign"} ->
            "OpShiftLeftLogical"
      [] op \in {"EOpBitShiftRight", "EOpBitShiftRightAssign"} ->
            IF isUnsigned THEN "OpShiftRightLogical"
            ELSE "OpShiftRightArithmetic"
      [] op \in {"EOpBitwiseAnd", "EOpBitwiseAndAssign"} -> "OpBitwiseAnd"
      [] op \in {"EOpBitwiseXor", "EOpBitwiseXorAssign"} -> "OpBitwiseXor"
      [] op \in {"EOpBitwiseOr", "EOpBitwiseOrAssign"} -> "OpBitwiseOr"
      [] OTHER -> "none"

\* Whether the operands are swapped in the instruction.
SwapOperands(op, isFloat, rightType) ==
    /\ op \in {"EOpVectorTimesScalar", "EOpVectorTimesScalarAssign"}
    /\ isFloat
    /\ isVector(rightType)

\* Whether a scalar operand is extended to the vector on the other side.
ExtendScalarToVector(op, isFloat) ==
    ~(op \in {"EOpVectorTimesScalar", "EOpVectorTimesScalarAssign"} /\ isFloat)

\* vecN(f): OpCompositeConstruct %vecN %f ... %f
createConstructorVectorFromScalar(type, typeId, parameters, st) ==
    LET st0 == Check(st, Len(parameters) = 1, "createConstructorVectorFromScalar")
        replicatedParameter == [k \in 1..type.primarySize |-> parameters[1]]
        result == st0.nextId
    IN  [st |-> Write(getNewId(st0),
                      Instr("OpCompositeConstruct", typeId, result,
                            replicatedParameter, <<>>)),
         id |-> result]

\* The part of visitBinary at PostVisit that evaluates an operator.
BinaryOperation(op, leftType, rightType, nodeType, left, rightValue, st) ==
    LET isFloat == leftType.basic \in {"EbtFloat", "EbtDouble"}
        isUnsigned == leftType.basic = "EbtUInt"
        isBool == leftType.basic = "EbtBool"
        writeBinaryOp == BinaryOpcode(op, isFloat, isUnsigned, isBool)
        swapOperands == SwapOperands(op, isFloat, rightType)
        extendScalarToVector == ExtendScalarToVector(op, isFloat)
    IN  IF writeBinaryOp = "none"
        THEN [data |-> left, st |-> Check(st, FALSE, "UNIMPLEMENTED")]
        ELSE Bind(accessChainLoad(left, st), LAMBDA ll :
             LET typeId == getTypeData(nodeType)
                 extLeft == extendScalarToVector /\ isScalar(leftType)
                            /\ isVector(rightType)
                 extRight == extendScalarToVector /\ ~extLeft
                             /\ isScalar(rightType) /\ isVector(leftType)
                 ext == IF extLeft
                        THEN createConstructorVectorFromScalar(
                                 rightType, typeId, <<ll.id>>, ll.st)
                        ELSE IF extRight
                        THEN createConstructorVectorFromScalar(
                                 leftType, typeId, <<rightValue>>, ll.st)
                        ELSE [st |-> ll.st, id |-> NoId]
                 leftValue == IF extLeft THEN ext.id ELSE ll.id
                 rightValue1 == IF extRight THEN ext.id ELSE rightValue
                 operand1 == IF swapOperands THEN rightValue1 ELSE leftValue
                 operand2 == IF swapOperands THEN leftValue ELSE rightValue1
                 result == ext.st.nextId
                 st1 == Write(getNewId(ext.st),
                              Instr(writeBinaryOp, typeId, result,
                                    <<operand1, operand2>>, <<>>))
                 st2 == IF IsAssignment(op)
                        THEN accessChainStore(ll.data, result, st1).st
                        ELSE st1
             IN  [data |-> nodeDataInitRValue(result, typeId), st |-> st2])

\* visitBinary at PostVisit (EOpIndexDirect* never gets here: InVisit stops it).
visitBinaryPost(op, leftType, rightType, nodeType, stack, st) ==
    IF op = "EOpInitialize"
    THEN [stack |-> stack, st |-> st]
    ELSE Bind(accessChainLoad(Back(stack),
                              Check(st, Len(stack) >= 2, "visitBinary")),
              LAMBDA rl :
         LET typeId == getAccessChainTypeId(Back(stack))
             rightValue == rl.id
             rest == PopBack(stack)
             left == Back(rest)
         IN  CASE op = "EOpIndexIndirect" ->
                    IF ~isArray(leftType) /\ isVector(leftType)
                    THEN LET r == accessChainPushDynamicComponent(
                                      left, rightValue, getTypeData(nodeType), rl.st)
                         IN  [stack |-> SetBack(rest, r.data), st |-> r.st]
                    ELSE [stack |-> SetBack(rest, accessChainPush(
                                      left, rightValue, getTypeData(nodeType))),
                          st |-> rl.st]
               [] op = "EOpAssign" ->
                    LET s == accessChainStore(left, rightValue, rl.st)
                    IN  [stack |-> SetBack(rest, nodeDataInitRValue(rightValue, typeId)),
                         st |-> s.st]
               [] OTHER ->
                    LET r == BinaryOperation(op, leftType, rightType, nodeType,
                                             left, rightValue, rl.st)
                    IN  [stack |-> SetBack(rest, r.data), st |-> r.st])

(***************************************************************************)
(* visitAggregate: constructors, function calls and atomic built-ins.      *)
(***************************************************************************)
\* The state the parameter loops work on: the stack (the parameters' records
\* are changed by the loads and stores through them), the builder, the ids
\* collected so far and the temporaries made for the parameters.
ParameterState(stack, st, parameterCount) ==
    [stack |-> stack, st |-> st, parameters |-> <<>>,
     tempVarIds |-> [k \in 1..parameterCount |-> NoId],
     tempVarTypeIds |-> [k \in 1..parameterCount |-> NoType]]

\* parameters.push_back(accessChainLoad(&param)) for the record at index.
LoadParameter(acc, index) ==
    Bind(accessChainLoad(acc.stack[index], acc.st), LAMBDA r :
         [acc EXCEPT !.stack[index] = r.data, !.st = r.st,
                     !.parameters = Append(@, r.id)])

createArrayOrStructConstructor(typeId, parameters, st) ==
    LET result == st.nextId
    IN  [st |-> Write(getNewId(st),
                      Instr("OpCompositeConstruct", typeId, result, parameters, <<>>)),
         id |-> result]

\* What a write through an index past the end of a list does: the element
\* type's storage is not part of the list ("ignored"), or the run stops.
OutOfRangeOutcomes == {"ignored", "stop"}

\* The zero of createConstructorMatrixFromScalar.
ZeroConstant(basic) ==
    CASE basic = "EbtFloat" -> getFloatConstant(0)
      [] basic = "EbtInt" -> getIntConstant(0)
      [] basic = "EbtUInt" -> getUintConstant(0)
      [] OTHER -> getBoolConstant(FALSE)

\* One round of the column loop of createConstructorMatrixFromScalar;
\* componentIds keeps its type.getRows() elements, whatever the index.
ScalarColumn(acc, scalarId, zeroId, columnTypeId, columnIndex, outOfRange) ==
    IF acc.stopped THEN acc
    ELSE LET columnId == acc.st.nextId
             size == Len(acc.componentIds)
             inRange == columnIndex < size
             st1 == Check(getNewId(acc.st), inRange, "componentIds[columnIndex]")
             placed == IF inRange
                       THEN [acc.componentIds EXCEPT ![columnIndex + 1] = scalarId]
                       ELSE acc.componentIds
             cleared == IF columnIndex > 0 /\ columnIndex - 1 < size
                        THEN [placed EXCEPT ![columnIndex] = zeroId]
                        ELSE placed
             st2 == Check(st1, columnIndex = 0 \/ columnIndex - 1 < size,
                          "componentIds[columnIndex - 1]")
         IN  IF columnIndex >= size /\ outOfRange = "stop"
             THEN [acc EXCEPT !.st = st2, !.stopped = TRUE]
             ELSE [st |-> Write(st2, Instr("OpCompositeConstruct", columnTypeId,
                                           columnId, cleared, <<>>)),
                   columnIds |-> Append(acc.columnIds, columnId),
                   componentIds |-> cleared,
                   stopped |-> FALSE]

\* matNxM(f): N columns with f on the diagonal, then the matrix.
createConstructorMatrixFromScalar(node, typeId, parameters, st) ==
    LET type == node.type
        scalarId == parameters[1]
        zeroId == ZeroConstant(type.basic)
        columnTypeId == getSpirvTypeData(type.basic, type.primarySize)
        Column[k \in 0..type.primarySize] ==
            IF k = 0
            THEN [st |-> st, columnIds |-> <<>>,
                  componentIds |-> [r \in 1..type.secondarySize |-> zeroId],
                  stopped |-> FALSE]
            ELSE ScalarColumn(Column[k - 1], scalarId, zeroId, columnTypeId, k - 1,
                              node.outOfRange)
    IN  Bind(Column[type.primarySize], LAMBDA columns :
             IF columns.stopped THEN [st |-> columns.st, id |-> NoId]
             ELSE [st |-> Write(getNewId(columns.st),
                                Instr("OpCompositeConstruct", typeId,
                                      columns.st.nextId, columns.columnIds, <<>>)),
                   id |-> columns.st.nextId])

\* The constant at (columnIndex, componentIndex) of the identity of
\* createConstructorMatrixFromMatrix.
IdentityConstant(basic, columnIndex, componentIndex) ==
    LET isOnDiagonal == columnIndex = componentIndex
    IN  CASE basic = "EbtFloat" -> getFloatConstant(IF isOnDiagonal THEN 0 ELSE 1)
          [] basic = "EbtInt" -> getIntConstant(IF isOnDiagonal THEN 0 ELSE 1)
          [] basic = "EbtUInt" -> getUintConstant(IF isOnDiagonal THEN 0 ELSE 1)
          [] OTHER -> getBoolConstant(isOnDiagonal)

\* One round of the column loop over a parameter at least as large as the
\* matrix: the column is extracted and, if too long, swizzled.
LargerColumn(acc, parameter, paramColumnTypeId, columnTypeId, columnIndex, needsSwizzle, swizzle) ==
    LET parameterColumnId == acc.st.nextId
        st1 == Write(getNewId(acc.st),
                     Instr("OpCompositeExtract", paramColumnTypeId, parameterColumnId,
                           <<parameter>>, <<columnIndex>>))
    IN  IF needsSwizzle
        THEN [st |-> Write(getNewId(st1),
                           Instr("OpVectorShuffle", columnTypeId, st1.nextId,
                                 <<parameterColumnId, parameterColumnId>>, swizzle)),
              columnIds |-> Append(acc.columnIds, st1.nextId)]
        ELSE [st |-> st1, columnIds |-> Append(acc.columnIds, parameterColumnId)]

\* One round of the column loop of the identity overlay.  The component
\* loop takes the components below the parameter's row count out of the
\* parameter, one fresh id and one OpCompositeExtract each, in order, and the
\* others from the identity.
OverlayColumn(acc, type, parameterType, parameter, paramComponentTypeId, columnTypeId, columnIndex) ==
    LET first == acc.st.nextId
        extracted == IF type.secondarySize < parameterType.secondarySize
                     THEN type.secondarySize
                     ELSE parameterType.secondarySize
        componentIds ==
            [row \in 1..type.secondarySize |->
                IF row - 1 < parameterType.secondarySize
                THEN first + (row - 1)
                ELSE IdentityConstant(type.basic, columnIndex, row - 1)]
        extracts ==
            [row \in 1..extracted |->
                Instr("OpCompositeExtract", paramComponentTypeId,
                      first + (row - 1), <<parameter>>, <<columnIndex, row - 1>>)]
        columnId == first + extracted
    IN  [st |-> [acc.st EXCEPT
                   !.nextId = columnId + 1,
                   !.block = @ \o extracts \o
                             <<Instr("OpCompositeConstruct", columnTypeId,
                                     columnId, componentIds, <<>>)>>],
         columnIds |-> Append(acc.columnIds, columnId)]

\* matNxM(m)
createConstructorMatrixFromMatrix(node, typeId, parameters, st) ==
    LET type == node.type
        parameterType == node.argTypes[1]
        st0 == Check(st, Len(parameters) = 1, "createConstructorMatrixFromMatrix")
        columnTypeId == getSpirvTypeData(type.basic, type.primarySize)
        paramColumnTypeId == getSpirvTypeData(parameterType.basic,
                                              parameterType.primarySize)
        paramComponentTypeId == getSpirvTypeData(parameterType.basic, 1)
        needsSwizzle == parameterType.secondarySize > type.secondarySize
        swizzle == [k \in 1..type.secondarySize |-> k - 1]
        isLarger == /\ parameterType.primarySize >= type.primarySize
                    /\ parameterType.secondarySize >= type.secondarySize
        Column[k \in 0..type.primarySize] ==
            IF k = 0 THEN [st |-> st0, columnIds |-> <<>>]
            ELSE IF isLarger
            THEN LargerColumn(Column[k - 1], parameters[1], paramColumnTypeId,
                              columnTypeId, k - 1, needsSwizzle, swizzle)
            ELSE OverlayColumn(Column[k - 1], type, parameterType, parameters[1],
                               paramComponentTypeId, columnTypeId, k - 1)
    IN  Bind(Column[type.primarySize], LAMBDA columns :
             [st |-> Write(getNewId(columns.st),
                           Instr("OpCompositeConstruct", typeId, columns.st.nextId,
                                 columns.columnIds, <<>>)),
              id |-> columns.st.nextId])

\* The constructors of arrays, of scalars, of vectors from one scalar and of
\* matrices from one scalar or one matrix.
createConstructor(node, typeId, stack, st) ==
    LET parameterCount == node.childCount
        first == Len(stack) - parameterCount
        Load[k \in 0..parameterCount] ==
            IF k = 0 THEN ParameterState(stack, st, parameterCount)
            ELSE LoadParameter(Load[k - 1], first + k)
    IN  Bind(Load[parameterCount], LAMBDA loaded :
        LET parameters == loaded.parameters
        IN
        IF isArray(node.type)
        THEN LET r == createArrayOrStructConstructor(typeId, parameters, loaded.st)
             IN  [stack |-> loaded.stack, st |-> r.st, id |-> r.id]
        ELSE IF isScalar(node.type)
        THEN [stack |-> loaded.stack, st |-> loaded.st, id |-> parameters[1]]
        ELSE IF isVector(node.type)
        THEN LET r == createConstructorVectorFromScalar(node.type, typeId,
                                                        parameters, loaded.st)
             IN  [stack |-> loaded.stack, st |-> r.st, id |-> r.id]
        ELSE IF isScalar(node.argTypes[1])
        THEN LET r == createConstructorMatrixFromScalar(node, typeId, parameters,
                                                        loaded.st)
             IN  [stack |-> loaded.stack, st |-> r.st, id |-> r.id]
        ELSE LET r == createConstructorMatrixFromMatrix(node, typeId, parameters,
                                                        loaded.st)
             IN  [stack |-> loaded.stack, st |-> r.st, id |-> r.id])

\* A parameter loop that passes the loaded value of every argument.
PassParameterByValue(acc, function, index, paramIndex) ==
    LoadParameter(acc, index)

\* One round of the first loop of createFunctionCall.
PassParameter(acc, function, index, paramIndex) ==
    LET paramType == function.params[paramIndex]
        paramQualifier == paramType.qualifier
        param == acc.stack[index]
    IN  IF \/ IsOpaqueType(paramType.basic)
           \/ paramQualifier = "EvqConst"
           \/ IsAccessChainUnindexedLValue(param)
        THEN LoadParameter(acc, index)
        ELSE LET st0 == Check(acc.st,
                              paramQualifier \in {"EvqIn", "EvqOut", "EvqInOut"},
                              "createFunctionCall")
                 tempVarTypeId == getTypeData(paramType)
                 tempVarId == st0.nextId
                 st1 == declareVariable(st0, tempVarTypeId, "Function", "param")
                 declared == [acc EXCEPT
                                !.st = st1,
                                !.tempVarIds[paramIndex] = tempVarId,
                                !.tempVarTypeIds[paramIndex] = tempVarTypeId,
                                !.parameters = Append(@, tempVarId)]
             IN  IF paramQualifier \in {"EvqIn", "EvqInOut"}
                 THEN Bind(accessChainLoad(param, st1), LAMBDA r :
                          [declared EXCEPT
                             !.stack[index] = r.data,
                             !.st = Write(r.st, Instr("OpStore", NoType, NoId,
                                                      <<tempVarId, r.id>>, <<>>))])
                 ELSE declared

\* A copy-back loop that copies every temporary back.
CopyBackEveryTemp(acc, function, index, paramIndex) ==
    IF acc.tempVarIds[paramIndex] = NoId THEN acc
    ELSE LET tempVarData == nodeDataInitLValue(acc.tempVarIds[paramIndex],
                                               acc.tempVarTypeIds[paramIndex],
                                               "Function", EbsUnspecified)
         IN  Bind(accessChainLoad(tempVarData, acc.st), LAMBDA l :
             Bind(accessChainStore(acc.stack[index], l.id, l.st), LAMBDA s :
                  [acc EXCEPT !.stack[index] = s.data, !.st = s.st]))

\* One round of the second loop of createFunctionCall.
CopyBack(acc, function, index, paramIndex) ==
    IF acc.tempVarIds[paramIndex] = NoId THEN acc
    ELSE IF function.params[paramIndex].qualifier = "EvqIn" THEN acc
    ELSE LET tempVarData == nodeDataInitLValue(acc.tempVarIds[paramIndex],
                                               acc.tempVarTypeIds[paramIndex],
                                               "Function", EbsUnspecified)
         IN  Bind(accessChainLoad(tempVarData, acc.st), LAMBDA l :
             Bind(accessChainStore(acc.stack[index], l.id, l.st), LAMBDA s :
                  [acc EXCEPT !.stack[index] = s.data, !.st = s.st]))

createFunctionCall(node, resultTypeId, stack, st) ==
    LET function == node.function
        functionId == function.id
        parameterCount == node.childCount
        first == Len(stack) - parameterCount
        Pass[k \in 0..parameterCount] ==
            IF k = 0 THEN ParameterState(stack, st, parameterCount)
            ELSE PassParameter(Pass[k - 1], function, first + k, k)
    IN  Bind(Pass[parameterCount], LAMBDA passed :
        LET result == passed.st.nextId
            called == [passed EXCEPT
                     !.st = Write(getNewId(passed.st),
                                  Instr("OpFunctionCall", resultTypeId, result,
                                        <<functionId>> \o passed.parameters, <<>>))]
            Copy[k \in 0..parameterCount] ==
                IF k = 0 THEN called
                ELSE CopyBack(Copy[k - 1], function, first + k, k)
        IN  Bind(Copy[parameterCount], LAMBDA copied :
                 [stack |-> copied.stack, st |-> copied.st, id |-> result]))

AtomicOps ==
    {"EOpAtomicAdd", "EOpAtomicMin", "EOpAtomicMax", "EOpAtomicAnd",
     "EOpAtomicOr", "EOpAtomicXor", "EOpAtomicExchange", "EOpAtomicCompSwap"}

\* spv::ScopeDevice
ScopeDevice == 1

\* spv::MemorySemanticsMaskNone
MemorySemanticsMaskNone == 0

\* An atomic opcode that takes the signed form of min and max.
AtomicOpcodeSigned(op, isUnsigned) ==
    CASE op = "EOpAtomicAdd" -> "OpAtomicIAdd"
      [] op = "EOpAtomicMin" -> "OpAtomicSMin"
      [] op = "EOpAtomicMax" -> "OpAtomicSMax"
      [] op = "EOpAtomicAnd" -> "OpAtomicAnd"
      [] op = "EOpAtomicOr" -> "OpAtomicOr"
      [] op = "EOpAtomicXor" -> "OpAtomicXor"
      [] op = "EOpAtomicExchange" -> "OpAtomicExchange"
      [] op = "EOpAtomicCompSwap" -> "OpAtomicCompareExchange"
      [] OTHER -> "none"

\* The instruction the switch of createAtomicBuiltIn selects.
AtomicOpcode(op, isUnsigned) ==
    CASE op = "EOpAtomicAdd" -> "OpAtomicIAdd"
      [] op = "EOpAtomicMin" ->
            IF isUnsigned THEN "OpAtomicUMin" ELSE "OpAtomicSMin"
      [] op = "EOpAtomicMax" ->
            IF isUnsigned THEN "OpAtomicUMax" ELSE "OpAtomicSMax"
      [] op = "EOpAtomicAnd" -> "OpAtomicAnd"
      [] op = "EOpAtomicOr" -> "OpAtomicOr"
      [] op = "EOpAtomicXor" -> "OpAtomicXor"
      [] op = "EOpAtomicExchange" -> "OpAtomicExchange"
      [] op = "EOpAtomicCompSwap" -> "OpAtomicCompareExchange"
      [] OTHER -> "none"

createAtomicBuiltIn(node, resultTypeId, stack, st) ==
    LET parameterCount == node.childCount
        first == Len(stack) - parameterCount
        st0 == Check(st, parameterCount >= 2, "createAtomicBuiltIn")
    IN  Bind(accessChainCollapse(stack[first + 1], st0), LAMBDA col :
        LET
        pointerId == col.id
        Load[k \in 1..parameterCount] ==
            IF k = 1
            THEN ParameterState([stack EXCEPT ![first + 1] = col.data], col.st,
                                parameterCount)
            ELSE LoadParameter(Load[k - 1], first + k)
        IN  Bind(Load[parameterCount], LAMBDA loaded :
        LET
        parameters == loaded.parameters
        scopeId == getUintConstant(ScopeDevice)
        semanticsId == getUintConstant(MemorySemanticsMaskNone)
        result == loaded.st.nextId
        st1 == getNewId(loaded.st)
        isUnsigned == node.argTypes[1].basic = "EbtUInt"
        writeAtomicOp == AtomicOpcode(node.op, isUnsigned)
    IN  IF node.op = "EOpAtomicCompSwap"
        THEN LET st2 == Check(st1, Len(parameters) = 2, "createAtomicBuiltIn")
             IN  [stack |-> loaded.stack,
                  st |-> Write(st2, Instr(writeAtomicOp, resultTypeId, result,
                                          <<pointerId, scopeId, semanticsId,
                                            semanticsId, parameters[2],
                                            parameters[1]>>, <<>>)),
                  id |-> result]
        ELSE LET st2 == Check(st1, Len(parameters) = 1, "createAtomicBuiltIn")
             IN  [stack |-> loaded.stack,
                  st |-> Write(st2, Instr(writeAtomicOp, resultTypeId, result,
                                          <<pointerId, scopeId, semanticsId,
                                            parameters[1]>>, <<>>)),
                  id |-> result]))

\* visitAggregate at PostVisit.  The node: its operator, type, function (of
\* a call), the types of its children and their number.
visitAggregatePost(node, stack, st) ==
    LET st0 == Check(st, Len(stack) > node.childCount, "visitAggregate")
        typeId == getTypeData(node.type)
    IN  Bind(CASE node.op = "EOpConstruct" ->
                    createConstructor(node, typeId, stack, st0)
               [] node.op = "EOpCallFunctionInAST" ->
                    createFunctionCall(node, typeId, stack, st0)
               [] node.op \in AtomicOps ->
                    createAtomicBuiltIn(node, typeId, stack, st0)
               [] OTHER ->
                    [stack |-> stack, st |-> Check(st0, FALSE, "UNIMPLEMENTED"),
                     id |-> NoId],
             LAMBDA r :
        LET popped == SubSeq(r.stack, 1, Len(r.stack) - node.childCount)
        IN  [stack |-> IF node.type.basic # "EbtVoid"
                       THEN SetBack(popped, nodeDataInitRValue(r.id, typeId))
                       ELSE popped,
             st |-> r.st])

(***************************************************************************)
(* Constants: createConstant and visitConstantUnion.                       *)
(***************************************************************************)
\* A TConstantUnion: the basic type it holds and its value; a bool holds 0
\* or 1, a float a whole number.
ConstantUnion(basic, value) == [type |-> basic, value |-> value]

\* TConstantUnion::cast for the small values above: a number becomes a bool by
\* comparison with zero, a bool becomes the number 0 or 1, and a whole number
\* keeps its value between float, int and uint.
Cast(expectedBasicType, constant) ==
    ConstantUnion(expectedBasicType,
                  IF expectedBasicType = "EbtBool"
                  THEN (IF constant.value # 0 THEN 1 ELSE 0)
                  ELSE constant.value)

\* type.getObjectSize() of a type that is not a struct.
getObjectSize(type) ==
    type.primarySize * type.secondarySize
        * (IF isArray(type) THEN type.arraySize ELSE 1)

\* mBuilder.getCompositeConstant(): the composite of these constituents is
\* declared once.
getCompositeConstant(typeId, componentIds, st) ==
    LET Same(k) == /\ st.constants[k].op = "OpConstantComposite"
                   /\ st.constants[k].type = typeId
                   /\ st.constants[k].ids = componentIds
    IN  IF \E k \in 1..Len(st.constants) : Same(k)
        THEN [st |-> st,
              id |-> st.constants[CHOOSE k \in 1..Len(st.constants) : Same(k)].result]
        ELSE [st |-> [getNewId(st) EXCEPT !.constants =
                         Append(@, Instr("OpConstantComposite", typeId, st.nextId,
                                         componentIds, <<>>))],
              id |-> st.nextId]

\* The id of one component of a constant, cast to the expected basic type.
ComponentConstant(expectedBasicType, constant) ==
    LET castConstant == Cast(expectedBasicType, constant)
    IN  CASE castConstant.type = "EbtFloat" -> getFloatConstant(castConstant.value)
          [] castConstant.type = "EbtInt" -> getIntConstant(castConstant.value)
          [] castConstant.type = "EbtUInt" -> getUintConstant(castConstant.value)
          [] castConstant.type = "EbtBool" -> getBoolConstant(castConstant.value = 1)

\* createConstant of a type that is not a struct.
createConstant(type, expectedBasicType, constUnion, st) ==
    LET typeId == getTypeData(type)
        size == getObjectSize(type)
        st0 == Check(st, expectedBasicType \in BasicTypes, "createConstant")
        componentIds == [component \in 1..size |->
                            ComponentConstant(expectedBasicType, constUnion[component])]
    IN  IF Len(componentIds) > 1
        THEN getCompositeConstant(typeId, componentIds, st0)
        ELSE [st |-> Check(st0, Len(componentIds) = 1, "createConstant"),
              id |-> componentIds[1]]

\* visitConstantUnion; parent is the path entry of the parent node, which
\* for an aggregate holds the type constructed or the type of the parameter.
visitConstantUnion(type, constUnion, expectedBasicType, stack, st) ==
    LET typeId == getTypeData(type)
        r == createConstant(type, expectedBasicType, constUnion, st)
    IN  [stack |-> Append(stack, nodeDataInitRValue(r.id, typeId)), st |-> r.st]

(***************************************************************************)
(* visitBranch and visitBlock.                                             *)
(***************************************************************************)
\* visitBranch at PostVisit for EOpReturn.
visitBranchPost(hasExpression, stack, st) ==
    IF hasExpression
    THEN Bind(accessChainLoad(Back(stack),
                              Check(st, Len(stack) >= 1, "visitBranch")),
              LAMBDA r :
              [stack |-> PopBack(stack),
               st |-> terminateCurrentFunctionBlock(
                          Write(r.st, Instr("OpReturnValue", NoType, NoId,
                                            <<r.id>>, <<>>)))])
    ELSE [stack |-> stack,
          st |-> terminateCurrentFunctionBlock(
                     Write(st, Instr("OpReturn", NoType, NoId, <<>>, <<>>)))]

(***************************************************************************)
(* The AST the traverser is given: symbols, operators and their types.     *)
(***************************************************************************)
VoidType == TType("EbtVoid", 1, 1, 0, "EvqTemporary")

Symbol(id, type) == [id |-> id, type |-> type]

\* The variables of the access chain scenarios:
\*   vec4 v; vec3 a[2] (global); const vec4 c; const vec3 ca[2];
\*   uint i; vec2 u.
ChainSymbols ==
    {Symbol(1, TType("EbtFloat", 4, 1, 0, "EvqTemporary")),
     Symbol(2, TType("EbtFloat", 3, 1, 2, "EvqGlobal")),
     Symbol(3, TType("EbtFloat", 4, 1, 0, "EvqConst")),
     Symbol(4, TType("EbtFloat", 3, 1, 2, "EvqConst")),
     Symbol(5, TType("EbtUInt", 1, 1, 0, "EvqTemporary")),
     Symbol(6, TType("EbtFloat", 2, 1, 0, "EvqTemporary"))}

BasicIndex(basic) ==
    CASE basic = "EbtFloat" -> 0
      [] basic = "EbtInt" -> 1
      [] basic = "EbtUInt" -> 2
      [] basic = "EbtBool" -> 3

\* The variables of the aggregate scenarios:
\*   vec4 v; vec3 a[2] (global); const vec4 c; shared uint n[2];
\*   uniform sampler2D s; float, int, uint and bool scalars.
AggregateSymbols ==
    {Symbol(1, TType("EbtFloat", 4, 1, 0, "EvqTemporary")),
     Symbol(2, TType("EbtFloat", 3, 1, 2, "EvqGlobal")),
     Symbol(3, TType("EbtFloat", 4, 1, 0, "EvqConst")),
     Symbol(7, TType("EbtUInt", 1, 1, 2, "EvqShared")),
     Symbol(8, TType("EbtSampler2D", 1, 1, 0, "EvqUniform"))}
    \cup {Symbol(10 + 2 * BasicIndex(b), TType(b, 1, 1, 0, "EvqTemporary")) :
        b \in BasicTypes}

\* The function that is called; its parameters are those of the call node.
CalledFunction == [id |-> 20, name |-> "f"]

ParamQualifiers == {"EvqIn", "EvqOut", "EvqInOut", "EvqConst"}

\* The return types of the called function.
ReturnTypes == {TType("EbtVoid", 1, 1, 0, "EvqTemporary"),
                TType("EbtFloat", 1, 1, 0, "EvqTemporary")}

\* The types that are constructed: the scalars, vec3, uvec2 and float[2].
ConstructTypes ==
    {TType(b, 1, 1, 0, "EvqTemporary") : b \in BasicTypes}
    \cup {TType("EbtFloat", 3, 1, 0, "EvqTemporary"),
          TType("EbtUInt", 2, 1, 0, "EvqTemporary"),
          TType("EbtFloat", 1, 1, 2, "EvqTemporary")}

\* The swizzles of the access chain scenarios: .zx .y .xy .xyzw
ChainSwizzles ==
    {<<2, 0>>, <<1>>, <<0, 1>>, <<0, 1, 2, 3>>}

\* The variables of the operator scenarios: a scalar and a 2-vector of each
\* basic type, and a float 2x2 matrix.
ArithSymbols ==
    {Symbol(10 + 2 * BasicIndex(b), TType(b, 1, 1, 0, "EvqTemporary")) :
        b \in BasicTypes}
    \cup {Symbol(11 + 2 * BasicIndex(b), TType(b, 2, 1, 0, "EvqTemporary")) :
        b \in BasicTypes}
    \cup {Symbol(18, TType("EbtFloat", 2, 2, 0, "EvqTemporary"))}

ArithOps ==
    {"EOpAdd", "EOpAddAssign", "EOpSub", "EOpSubAssign", "EOpMul", "EOpMulAssign",
     "EOpDiv", "EOpDivAssign", "EOpIMod", "EOpIModAssign",
     "EOpVectorTimesScalar", "EOpVectorTimesScalarAssign",
     "EOpVectorTimesMatrix", "EOpVectorTimesMatrixAssign",
     "EOpMatrixTimesVector", "EOpMatrixTimesScalar",
     "EOpMatrixTimesScalarAssign", "EOpMatrixTimesMatrix",
     "EOpMatrixTimesMatrixAssign",
     "EOpEqual", "EOpEqualComponentWise", "EOpNotEqual",
     "EOpNotEqualComponentWise", "EOpLessThan", "EOpLessThanComponentWise",
     "EOpGreaterThan", "EOpGreaterThanComponentWise", "EOpLessThanEqual",
     "EOpLessThanEqualComponentWise", "EOpGreaterThanEqual",
     "EOpGreaterThanEqualComponentWise",
     "EOpBitShiftLeft", "EOpBitShiftLeftAssign", "EOpBitShiftRight",
     "EOpBitShiftRightAssign", "EOpBitwiseAnd", "EOpBitwiseAndAssign",
     "EOpBitwiseXor", "EOpBitwiseXorAssign", "EOpBitwiseOr",
     "EOpBitwiseOrAssign", "EOpLogicalAnd"}

SameShape(t1, t2) ==
    /\ t1.basic = t2.basic
    /\ t1.primarySize = t2.primarySize
    /\ t1.secondarySize = t2.secondarySize
    /\ t1.arraySize = t2.arraySize

IsNumeric(t) == t.basic \in {"EbtFloat", "EbtInt", "EbtUInt"}

IsInteger(t) == t.basic \in {"EbtInt", "EbtUInt"}

\* The operand types the AST producer gives a binary node of each operator.
ValidBinary(op, lt, rt) ==
    /\ ~isArray(lt) /\ ~isArray(rt)
    /\ lt.basic = rt.basic
    /\ IsAssignment(op) =>
          (lt.primarySize >= rt.primarySize /\ lt.secondarySize >= rt.secondarySize)
    /\ CASE op \in {"EOpAdd", "EOpAddAssign", "EOpSub", "EOpSubAssign",
                    "EOpDiv", "EOpDivAssign"} ->
               /\ IsNumeric(lt) /\ ~isMatrix(lt) /\ ~isMatrix(rt)
               /\ (SameShape(lt, rt) \/ isScalar(lt) \/ isScalar(rt))
         [] op \in {"EOpMul", "EOpMulAssign"} ->
               IsNumeric(lt) /\ ~isMatrix(lt) /\ SameShape(lt, rt)
         [] op \in {"EOpIMod", "EOpIModAssign"} ->
               /\ IsNumeric(lt) /\ ~isMatrix(lt) /\ ~isMatrix(rt)
               /\ (SameShape(lt, rt) \/ isScalar(rt))
         [] op \in {"EOpVectorTimesScalar", "EOpVectorTimesScalarAssign"} ->
               /\ IsNumeric(lt)
               /\ \/ isVector(lt) /\ isScalar(rt)
                  \/ isScalar(lt) /\ isVector(rt)
         [] op \in {"EOpMatrixTimesScalar", "EOpMatrixTimesScalarAssign"} ->
               /\ lt.basic = "EbtFloat"
               /\ \/ isMatrix(lt) /\ isScalar(rt)
                  \/ isScalar(lt) /\ isMatrix(rt)
         [] op \in {"EOpVectorTimesMatrix", "EOpVectorTimesMatrixAssign"} ->
               isVector(lt) /\ isMatrix(rt) /\ lt.primarySize = rt.secondarySize
         [] op = "EOpMatrixTimesVector" ->
               isMatrix(lt) /\ isVector(rt) /\ lt.primarySize = rt.primarySize
         [] op \in {"EOpMatrixTimesMatrix", "EOpMatrixTimesMatrixAssign"} ->
               isMatrix(lt) /\ isMatrix(rt) /\ lt.primarySize = rt.secondarySize
         [] op \in {"EOpEqual", "EOpNotEqual"} ->
               isScalar(lt) /\ isScalar(rt)
         [] op \in {"EOpEqualComponentWise", "EOpNotEqualComponentWise"} ->
               isVector(lt) /\ SameShape(lt, rt)
         [] op \in {"EOpLessThan", "EOpGreaterThan", "EOpLessThanEqual",
                    "EOpGreaterThanEqual"} ->
               IsNumeric(lt) /\ isScalar(lt) /\ isScalar(rt)
         [] op \in {"EOpLessThanComponentWise", "EOpGreaterThanComponentWise",
                    "EOpLessThanEqualComponentWise",
                    "EOpGreaterThanEqualComponentWise"} ->
               IsNumeric(lt) /\ isVector(lt) /\ SameShape(lt, rt)
         [] op \in {"EOpBitShiftLeft", "EOpBitShiftLeftAssign", "EOpBitShiftRight",
                    "EOpBitShiftRightAssign", "EOpBitwiseAnd",
                    "EOpBitwiseAndAssign", "EOpBitwiseXor", "EOpBitwiseXorAssign",
                    "EOpBitwiseOr", "EOpBitwiseOrAssign"} ->
               /\ IsInteger(lt) /\ ~isMatrix(lt)
               /\ (SameShape(lt, rt) \/ isScalar(rt))
         [] op = "EOpLogicalAnd" ->
               lt.basic = "EbtBool" /\ isScalar(lt) /\ isScalar(rt)
         [] OTHER -> FALSE

\* The type the AST producer gives the binary node.
BinaryNodeType(op, lt, rt) ==
    LET temp(t) == [t EXCEPT !.qualifier = "EvqTemporary"]
    IN  CASE op = "EOpIndexIndirect" -> IndexedType(lt)
          [] IsAssignment(op) -> temp(lt)
          [] op \in {"EOpEqual", "EOpNotEqual", "EOpLessThan", "EOpGreaterThan",
                     "EOpLessThanEqual", "EOpGreaterThanEqual", "EOpLogicalAnd"} ->
                TType("EbtBool", 1, 1, 0, "EvqTemporary")
          [] op \in {"EOpEqualComponentWise", "EOpNotEqualComponentWise",
                     "EOpLessThanComponentWise", "EOpGreaterThanComponentWise",
                     "EOpLessThanEqualComponentWise",
                     "EOpGreaterThanEqualComponentWise"} ->
                TType("EbtBool", lt.primarySize, 1, 0, "EvqTemporary")
          [] op = "EOpMatrixTimesVector" ->
                TType(lt.basic, lt.secondarySize, 1, 0, "EvqTemporary")
          [] op = "EOpVectorTimesMatrix" ->
                TType(lt.basic, rt.primarySize, 1, 0, "EvqTemporary")
          [] op = "EOpMatrixTimesMatrix" ->
                TType(lt.basic, rt.primarySize, lt.secondarySize, 0, "EvqTemporary")
          [] OTHER -> IF isScalar(lt) THEN temp(rt) ELSE temp(lt)

\* An expression that may be assigned to: a variable, indexed or swizzled
\* without a repeated component.
IsLValueExpression(data) ==
    /\ ~IsAccessChainRValue(data.accessChain)
    /\ data.accessChain.dynamicComponent = NoId
    /\ \A j, k \in 1..Len(data.accessChain.swizzles) :
          data.accessChain.swizzles[j] = data.accessChain.swizzles[k] => j = k

PathEntry(node, op, base, nargs, type) ==
    [node |-> node, op |-> op, base |-> base, nargs |-> nargs, type |-> type]

\* What the last visit handled: the handler, the node's operator and type,
\* the records and types of its operands as they were, the function
\* parameters of a call, and the length of the block before the visit.
Visited(visit, op, nodeType, args, types, params) ==
    [visit |-> visit, op |-> op, nodeType |-> nodeType, args |-> args,
     types |-> types, params |-> params, from |-> Len(mBuilder.block),
     nextId |-> mBuilder.nextId, vars |-> Len(mBuilder.variables)]

\* The builder at the start of a visit.
Entering == [mBuilder EXCEPT !.log = <<>>]

InitBuilder ==
    [nextId |-> 30, block |-> <<>>, variables |-> <<>>, constants |-> <<>>,
     isTerminated |-> FALSE, failure |-> "none", log |-> <<>>]

Init ==
    /\ mNodeData = <<>>
    /\ astType = <<>>
    /\ path = <<>>
    /\ mBuilder = InitBuilder
    /\ last = [visit |-> "none", op |-> "none", nodeType |-> VoidType,
               args |-> <<>>, types |-> <<>>, params |-> <<>>, from |-> 0,
               nextId |-> InitBuilder.nextId, vars |-> 0]
    /\ pc = "stmt"

\* Whether a symbol of type t may be the operand the traversal is at.
ExpectedOperand(t) ==
    IF path = <<>> THEN TRUE
    ELSE LET top == Back(path)
         IN  CASE top.node = "binary" /\ top.op = "EOpIndexIndirect" ->
                    isScalar(t) /\ IsInteger(t)
               [] top.node = "binary" /\ top.op = "EOpAssign" -> TRUE
               [] top.node = "binary" ->
                    ValidBinary(top.op, astType[top.base], t)
               [] top.node = "aggregate" /\ top.op \in AtomicOps ->
                    IsInteger(t) /\ t.primarySize = 1
               [] top.node = "aggregate" /\ top.op = "EOpConstruct" ->
                    (isScalar(t) \/ isMatrix(t)) /\ t.basic \in BasicTypes
               [] OTHER -> TRUE

VisitSymbol(symbol) ==
    /\ pc \in {"stmt", "operand"}
    /\ ExpectedOperand(symbol.type)
    /\ mNodeData' = visitSymbol(symbol, mNodeData)
    /\ astType' = Append(astType, symbol.type)
    /\ mBuilder' = Entering
    /\ last' = Visited("visitSymbol", "none", symbol.type, <<>>, <<>>, <<>>)
    /\ pc' = "chain"
    /\ UNCHANGED path

\* visitBinary at InVisit of node[literal]: the right child is not visited.
VisitIndexDirect(literal) ==
    /\ pc = "chain"
    /\ mNodeData # <<>>
    /\ LET t == Back(astType)
           nodeType == IndexedType(t)
       IN  /\ isArray(t) \/ t.primarySize > 1
           /\ literal \in 0..(IndexableSize(t) - 1)
           /\ Back(mNodeData).accessChain.swizzles = <<>>
           /\ mNodeData' = SetBack(mNodeData,
                  accessChainPushLiteral(Back(mNodeData), literal,
                                         getTypeData(nodeType)))
           /\ astType' = SetBack(astType, nodeType)
           /\ last' = Visited("visitBinary", "EOpIndexDirect", nodeType,
                              <<Back(mNodeData)>>, <<t>>, <<>>)
    /\ mBuilder' = Entering
    /\ UNCHANGED <<path, pc>>

VisitSwizzle(swizzle) ==
    /\ pc = "chain"
    /\ mNodeData # <<>>
    /\ LET t == Back(astType)
           nodeType == SwizzledType(t, swizzle)
           r == visitSwizzle(swizzle, t, nodeType, mNodeData, Entering)
       IN  /\ ~isArray(t) /\ isVector(t)
           /\ \A k \in 1..Len(swizzle) : swizzle[k] < t.primarySize
           /\ Back(mNodeData).accessChain.swizzles = <<>>
           /\ mNodeData' = r.stack
           /\ mBuilder' = r.st
           /\ astType' = SetBack(astType, nodeType)
           /\ last' = Visited("visitSwizzle", "none", nodeType,
                              <<Back(mNodeData)>>, <<t>>, <<>>)
    /\ UNCHANGED <<path, pc>>

\* visitBinary at InVisit of any other operator: the right child is next.
VisitBinaryIn(op, depth) ==
    /\ pc = "chain"
    /\ mNodeData # <<>>
    /\ Cardinality({k \in 1..Len(path) : path[k].node = "binary"}) < depth
    /\ LET t == Back(astType)
       IN  CASE op = "EOpIndexIndirect" -> isArray(t) \/ t.primarySize > 1
             [] IsAssignment(op) -> IsLValueExpression(Back(mNodeData))
             [] OTHER -> t.basic \in BasicTypes /\ last.visit = "visitSymbol"
    /\ path' = Append(path, PathEntry("binary", op, Len(mNodeData), 2, VoidType))
    /\ pc' = "operand"
    /\ mBuilder' = Entering
    /\ last' = Visited("visitBinary", op, VoidType, <<Back(mNodeData)>>,
                       <<Back(astType)>>, <<>>)
    /\ UNCHANGED <<mNodeData, astType>>

VisitBinaryPost ==
    /\ pc = "chain"
    /\ path # <<>>
    /\ Back(path).node = "binary"
    /\ Len(mNodeData) = Back(path).base + 1
    /\ LET op == Back(path).op
           lt == astType[Len(astType) - 1]
           rt == Back(astType)
           nodeType == BinaryNodeType(op, lt, rt)
           r == visitBinaryPost(op, lt, rt, nodeType, mNodeData, Entering)
       IN  /\ CASE op = "EOpIndexIndirect" -> isScalar(rt) /\ IsInteger(rt)
                [] op = "EOpAssign" -> SameShape(lt, rt)
                [] OTHER -> ValidBinary(op, lt, rt)
           /\ mNodeData' = r.stack
           /\ mBuilder' = r.st
           /\ astType' = SetBack(PopBack(astType), nodeType)
           /\ last' = Visited("visitBinary", op, nodeType,
                              <<mNodeData[Len(mNodeData) - 1], Back(mNodeData)>>,
                              <<lt, rt>>, <<>>)
    /\ path' = PopBack(path)
    /\ pc' = "chain"

\* visitBranch at PreVisit of a return statement.
VisitBranchPre(hasExpression) ==
    /\ pc = "stmt"
    /\ mNodeData' = Append(mNodeData, EmptyNodeData)
    /\ astType' = Append(astType, VoidType)
    /\ path' = Append(path, PathEntry("branch", "EOpReturn", Len(mNodeData) + 1,
                                      IF hasExpression THEN 1 ELSE 0, VoidType))
    /\ pc' = IF hasExpression THEN "operand" ELSE "chain"
    /\ mBuilder' = Entering
    /\ last' = Visited("visitBranch", "PreVisit", VoidType, <<>>, <<>>, <<>>)

VisitBranchPost ==
    /\ pc = "chain"
    /\ path # <<>>
    /\ Back(path).node = "branch"
    /\ Len(mNodeData) = Back(path).base + Back(path).nargs
    /\ LET hasExpression == Back(path).nargs = 1
           r == visitBranchPost(hasExpression, mNodeData, Entering)
       IN  /\ mNodeData' = r.stack
           /\ mBuilder' = r.st
           /\ astType' = SubSeq(astType, 1, Len(r.stack))
           /\ last' = Visited("visitBranch", "EOpReturn", VoidType,
                              IF hasExpression THEN <<Back(mNodeData)>> ELSE <<>>,
                              IF hasExpression THEN <<Back(astType)>> ELSE <<>>,
                              <<>>)
    /\ path' = PopBack(path)
    /\ pc' = "end"

\* visitBlock at PostVisit of a statement of a function body.
VisitBlockPost ==
    /\ pc \in {"chain", "end"}
    /\ path = <<>>
    /\ mNodeData # <<>>
    /\ mNodeData' = PopBack(mNodeData)
    /\ astType' = PopBack(astType)
    /\ mBuilder' = Entering
    /\ last' = Visited("visitBlock", "none", VoidType, <<Back(mNodeData)>>,
                       <<Back(astType)>>, <<>>)
    /\ pc' = "done"
    /\ UNCHANGED path

(***************************************************************************)
(* Spec: one statement of a function body made of symbols, indexing,       *)
(* swizzles and assignment, or a return of such an expression.             *)
(***************************************************************************)
Next ==
    \/ \E symbol \in ChainSymbols : VisitSymbol(symbol)
    \/ \E literal \in 0..3 : VisitIndexDirect(literal)
    \/ \E swizzle \in ChainSwizzles : VisitSwizzle(swizzle)
    \/ \E op \in {"EOpIndexIndirect", "EOpAssign"} : VisitBinaryIn(op, MaxDepth)
    \/ VisitBinaryPost
    \/ \E hasExpression \in BOOLEAN : VisitBranchPre(hasExpression)
    \/ VisitBranchPost
    \/ VisitBlockPost

Spec == Init /\ [][Next]_vars

(***************************************************************************)
(* SpecBinary: one expression statement `x op y` over the variables of     *)
(* ArithSymbols.                                                           *)
(***************************************************************************)
NextBinary ==
    \/ \E symbol \in ArithSymbols : VisitSymbol(symbol)
    \/ \E op \in ArithOps : VisitBinaryIn(op, 1)
    \/ VisitBinaryPost
    \/ VisitBlockPost

SpecBinary == Init /\ [][NextBinary]_vars

(***************************************************************************)
(* SpecAggregate: one statement that is a constructor, a call of a         *)
(* function or an atomic built-in over the variables of AggregateSymbols.  *)
(***************************************************************************)
\* visitAggregate at PreVisit.
VisitAggregatePre(op, childCount) ==
    /\ pc = "stmt"
    /\ CASE op = "EOpAtomicCompSwap" -> childCount = 3
         [] op \in AtomicOps -> childCount = 2
         [] op = "EOpConstruct" -> childCount \in 1..2
         [] OTHER -> childCount \in 1..MaxArgs
    /\ mNodeData' = Append(mNodeData, EmptyNodeData)
    /\ astType' = Append(astType, VoidType)
    /\ path' = Append(path, PathEntry("aggregate", op, Len(mNodeData) + 1,
                                      childCount, VoidType))
    /\ pc' = "operand"
    /\ mBuilder' = Entering
    /\ last' = Visited("visitAggregate", "PreVisit", VoidType, <<>>, <<>>, <<>>)

\* visitAggregate at InVisit: the parameters stay on the stack.
VisitAggregateIn ==
    /\ pc = "chain"
    /\ path # <<>>
    /\ Back(path).node = "aggregate"
    /\ Len(mNodeData) > Back(path).base
    /\ Len(mNodeData) < Back(path).base + Back(path).nargs
    /\ pc' = "operand"
    /\ mBuilder' = Entering
    /\ last' = Visited("visitAggregate", "InVisit", VoidType, <<>>, <<>>, <<>>)
    /\ UNCHANGED <<mNodeData, astType, path>>

\* The children of the aggregate on top of the path, and their types.
Children(stack) == SubSeq(stack, Back(path).base + 1, Len(stack))

\* The nodes the AST producer makes of these children.
ValidAggregate(node, args) ==
    LET n == node.childCount
        types == node.argTypes
    IN  CASE node.op = "EOpCallFunctionInAST" ->
               /\ Len(node.function.params) = n
               /\ \A k \in 1..n :
                     /\ SameShape(node.function.params[k], types[k])
                     /\ IsOpaqueType(types[k].basic) =>
                           node.function.params[k].qualifier = "EvqIn"
                     /\ node.function.params[k].qualifier \in {"EvqOut", "EvqInOut"} =>
                           /\ IsLValueExpression(args[k])
                           /\ ~IsOpaqueType(types[k].basic)
          [] node.op \in AtomicOps ->
               /\ IsLValueExpression(args[1])
               /\ \A k \in 1..n : isScalar(types[k]) /\ types[k].basic = types[1].basic
               /\ IsInteger(types[1])
               /\ SameShape(node.type, types[1])
          [] node.op = "EOpConstruct" ->
               /\ \A k \in 1..n : ~IsOpaqueType(types[k].basic)
               /\ IF isArray(node.type)
                  THEN /\ n = node.type.arraySize
                       /\ \A k \in 1..n : SameShape(types[k], IndexedType(node.type))
                  ELSE IF isScalar(node.type)
                  THEN n = 1 /\ isScalar(types[1])
                  ELSE IF isVector(node.type)
                  THEN /\ n = 1 /\ isScalar(types[1])
                       /\ types[1].basic = node.type.basic
                  ELSE /\ n = 1 /\ (isScalar(types[1]) \/ isMatrix(types[1]))
                       /\ types[1].basic = node.type.basic
          [] OTHER -> FALSE

\* visitAggregate at PostVisit of the node `node`.
VisitAggregatePost(node) ==
    /\ pc = "chain"
    /\ path # <<>>
    /\ Back(path).node = "aggregate"
    /\ Back(path).op = node.op
    /\ Len(mNodeData) = Back(path).base + Back(path).nargs
    /\ node.childCount = Back(path).nargs
    /\ node.argTypes = Children(astType)
    /\ ValidAggregate(node, Children(mNodeData))
    /\ LET r == visitAggregatePost(node, mNodeData, Entering)
       IN  /\ mNodeData' = r.stack
           /\ mBuilder' = r.st
           /\ astType' = Append(SubSeq(astType, 1, Len(r.stack) - 1), node.type)
    /\ last' = Visited("visitAggregate", node.op, node.type, Children(mNodeData),
                       Children(astType), node.function.params)
    /\ path' = PopBack(path)
    /\ pc' = "end"

AggregateNode(op, type, params) ==
    [op |-> op, type |-> type, childCount |-> Back(path).nargs,
     argTypes |-> Children(astType),
     function |-> [id |-> CalledFunction.id, params |-> params],
     outOfRange |-> "ignored"]

\* A call f(...) whose parameters have the qualifiers quals.
VisitCallPost(quals, returnType) ==
    /\ path # <<>>
    /\ Len(quals) = Back(path).nargs
    /\ Len(mNodeData) = Back(path).base + Back(path).nargs
    /\ VisitAggregatePost(
           AggregateNode("EOpCallFunctionInAST", returnType,
                         [k \in 1..Len(quals) |->
                             [Children(astType)[k] EXCEPT !.qualifier = quals[k]]]))

VisitAtomicPost(op) ==
    /\ path # <<>>
    /\ Len(mNodeData) = Back(path).base + Back(path).nargs
    /\ VisitAggregatePost(
           AggregateNode(op, [Children(astType)[1] EXCEPT !.qualifier = "EvqTemporary"],
                         <<>>))

VisitConstructPost(type) ==
    /\ path # <<>>
    /\ VisitAggregatePost(AggregateNode("EOpConstruct", type, <<>>))

NextAggregate ==
    \/ \E op \in AtomicOps \cup {"EOpConstruct", "EOpCallFunctionInAST"} :
          \E childCount \in 1..(MaxArgs + 1) : VisitAggregatePre(op, childCount)
    \/ \E symbol \in AggregateSymbols : VisitSymbol(symbol)
    \/ VisitIndexDirect(1)
    \/ VisitSwizzle(<<2, 0>>)
    \/ VisitBinaryIn("EOpIndexIndirect", 1)
    \/ VisitBinaryPost
    \/ VisitAggregateIn
    \/ \E quals \in UNION {[1..n -> ParamQualifiers] : n \in 1..MaxArgs} :
          \E returnType \in ReturnTypes : VisitCallPost(quals, returnType)
    \/ \E op \in AtomicOps : VisitAtomicPost(op)
    \/ \E type \in ConstructTypes : VisitConstructPost(type)
    \/ VisitBlockPost

SpecAggregate == Init /\ [][NextAggregate]_vars

(***************************************************************************)
(* SpecConstruct: one statement that constructs a matrix from a scalar or  *)
(* from a matrix.                                                          *)
(***************************************************************************)
\* The matrix shapes: primarySize columns, secondarySize rows.
MatrixTypes ==
    {TType("EbtFloat", cols, rows, 0, "EvqTemporary") : cols, rows \in 2..4}

\* float f; and one matrix variable of every shape.
ConstructSymbols ==
    {Symbol(10, TType("EbtFloat", 1, 1, 0, "EvqTemporary"))}
    \cup {Symbol(40 + 4 * t.primarySize + t.secondarySize, t) : t \in MatrixTypes}

\* matNxM(x) at PostVisit; outOfRange is what an index past the end of the
\* component list does.
VisitMatrixConstructPost(type, outOfRange) ==
    /\ path # <<>>
    /\ VisitAggregatePost([AggregateNode("EOpConstruct", type, <<>>)
                              EXCEPT !.outOfRange = outOfRange])

NextConstruct ==
    \/ VisitAggregatePre("EOpConstruct", 1)
    \/ \E symbol \in ConstructSymbols : VisitSymbol(symbol)
    \/ \E type \in MatrixTypes :
          \E outOfRange \in OutOfRangeOutcomes :
             VisitMatrixConstructPost(type, outOfRange)
    \/ VisitBlockPost

SpecConstruct == Init /\ [][NextConstruct]_vars

(***************************************************************************)
(* The builder's function blocks and conditionals, visitIfElse and         *)
(* visitFunctionDefinition.                                                *)
(***************************************************************************)
\* The builder of a whole translation unit: the label of the current block,
\* the blocks of the current function before it, the stack of conditionals,
\* the functions and debug sections, the symbol ids and what OutputSPIRV
\* hands back.
UnitBuilder ==
    [nextId |-> InitBuilder.nextId, block |-> <<>>, variables |-> <<>>,
     constants |-> <<>>, isTerminated |-> FALSE, failure |-> "none",
     log |-> <<>>, labelId |-> NoId, blocks |-> <<>>,
     mConditionalStack |-> <<>>, mSpirvFunctions |-> <<>>,
     mSpirvDebug |-> <<>>, mSpirvDecorations |-> <<>>,
     mEntryPointInterfaceList |-> <<>>, mSymbolIdMap |-> {}, binary |-> <<>>,
     result |-> "none"]

\* mSymbolIdMap.count(symbol)
SymbolCount(st, symbol) == Cardinality({e \in st.mSymbolIdMap : e[1] = symbol})

\* mSymbolIdMap[symbol]: a symbol that is not there reads as the invalid id.
SymbolId(st, symbol) ==
    IF SymbolCount(st, symbol) > 0
    THEN (CHOOSE e \in st.mSymbolIdMap : e[1] = symbol)[2]
    ELSE NoId

\* mSymbolIdMap[symbol] = id
SetSymbolId(st, symbol, id) ==
    [st EXCEPT !.mSymbolIdMap =
        {e \in @ : e[1] # symbol} \cup {<<symbol, id>>}]

\* mBuilder.startNewFunction(): the first block of the function.
startNewFunction(st, functionId, name) ==
    LET st0 == Check(st, st.labelId = NoId /\ st.blocks = <<>>, "startNewFunction")
    IN  [st0 EXCEPT !.nextId = @ + 1,
                    !.labelId = st0.nextId,
                    !.block = <<>>,
                    !.isTerminated = FALSE,
                    !.mSpirvDebug =
                        Append(@, Instr("OpName", NoType, NoId, <<functionId>>,
                                        <<name>>))]

\* mBuilder.startConditional(): a frame of blockCount fresh block ids, the
\* last of them the merge block.
startConditional(st, blockCount) ==
    [st EXCEPT !.nextId = @ + blockCount,
               !.mConditionalStack =
                   Append(@, [blockIds |-> [k \in 1..blockCount |-> st.nextId + k - 1],
                              nextBlockToWrite |-> 0])]

\* mBuilder.nextConditionalBlock(): the next block of the frame is current.
nextConditionalBlock(st) ==
    LET conditional == Back(st.mConditionalStack)
        st0 == Check(st, st.isTerminated, "nextConditionalBlock")
        blockId == conditional.blockIds[conditional.nextBlockToWrite + 1]
    IN  [st0 EXCEPT !.mConditionalStack =
                        SetBack(@, [conditional EXCEPT !.nextBlockToWrite = @ + 1]),
                    !.blocks = Append(@, [labelId |-> st.labelId, body |-> st.block,
                                          isTerminated |-> st.isTerminated]),
                    !.labelId = blockId,
                    !.block = <<>>,
                    !.isTerminated = FALSE]

\* mBuilder.endConditional()
endConditional(st) ==
    LET conditional == Back(st.mConditionalStack)
        st0 == Check(st, conditional.nextBlockToWrite = Len(conditional.blockIds),
                     "endConditional")
    IN  [st0 EXCEPT !.mConditionalStack = PopBack(@)]

\* The label and the body of one block, as placed in the functions section.
AssembledBlock(block) ==
    <<Instr("OpLabel", NoType, block.labelId, <<>>, <<>>)>> \o block.body

RECURSIVE AssembledBlocks(_)
AssembledBlocks(blocks) ==
    IF blocks = <<>> THEN <<>>
    ELSE AssembledBlock(blocks[1]) \o AssembledBlocks(Tail(blocks))

\* mBuilder.assembleSpirvFunctionBlocks(): the blocks in sequence.
assembleSpirvFunctionBlocks(st) ==
    LET all == Append(st.blocks, [labelId |-> st.labelId, body |-> st.block,
                                  isTerminated |-> st.isTerminated])
        st0 == Check(st, \A k \in 1..Len(all) : all[k].isTerminated,
                     "assembleSpirvFunctionBlocks")
    IN  [st0 EXCEPT !.mSpirvFunctions = @ \o AssembledBlocks(all),
                    !.blocks = <<>>,
                    !.labelId = NoId,
                    !.block = <<>>]

\* An if/else node: the blocks it has.
IfElseNode(hasTrueBlock, hasFalseBlock) ==
    [hasTrueBlock |-> hasTrueBlock, hasFalseBlock |-> hasFalseBlock,
     childCount |-> 1 + (IF hasTrueBlock THEN 1 ELSE 0)
                      + (IF hasFalseBlock THEN 1 ELSE 0)]

\* The name of the shape of an if/else node, and the node of that name.
IfElseShape(node) ==
    IF node.hasTrueBlock
    THEN IF node.hasFalseBlock THEN "if-else" ELSE "if"
    ELSE "else"

IfElseOfShape(shape) == IfElseNode(shape # "else", shape # "if")

\* visitIfElse; lastChildIndex is getLastTraversedChildIndex(visit).
visitIfElse(visit, node, lastChildIndex, stack, st) ==
    IF visit = "PreVisit"
    THEN [stack |-> stack, st |-> st]
    ELSE IF lastChildIndex = 0
    THEN Bind(accessChainLoad(Back(stack), st), LAMBDA loaded :
         Bind(startConditional(loaded.st, node.childCount), LAMBDA started :
         LET conditional == Back(started.mConditionalStack)
             mergeBlock == Back(conditional.blockIds)
             trueBlock == IF node.hasTrueBlock THEN conditional.blockIds[1]
                          ELSE mergeBlock
             falseBlock == IF node.hasFalseBlock
                           THEN conditional.blockIds[IF node.hasTrueBlock
                                                     THEN 2 ELSE 1]
                           ELSE mergeBlock
         IN  [stack |-> SetBack(stack, loaded.data),
              st |-> nextConditionalBlock(terminateCurrentFunctionBlock(
                         Write(Write(started,
                                     Instr("OpSelectionMerge", NoType, NoId,
                                           <<mergeBlock>>, <<>>)),
                               Instr("OpBranchConditional", NoType, NoId,
                                     <<loaded.id, trueBlock, falseBlock>>,
                                     <<>>))))]))
    ELSE LET mergeBlock == Back(Back(st.mConditionalStack).blockIds)
             st0 == Check(st, ~st.isTerminated, "visitIfElse")
         IN  Bind(nextConditionalBlock(terminateCurrentFunctionBlock(
                      Write(st0, Instr("OpBranch", NoType, NoId, <<mergeBlock>>,
                                       <<>>)))),
                  LAMBDA next :
                  [stack |-> stack,
                   st |-> IF visit = "PostVisit" THEN endConditional(next)
                          ELSE next])

\* The id of the type of a function.
getFunctionTypeId(returnTypeId, paramTypeIds) ==
    [basic |-> "function", primarySize |-> 0, secondarySize |-> 0,
     arraySize |-> 0, storageClass |-> "none", returnType |-> returnTypeId,
     params |-> paramTypeIds]

\* The keys of mSymbolIdMap: a function, and the variable of its parameter
\* paramIndex (from 1).
FunctionSymbol(name) == <<name, 0>>

ParamVariable(function, paramIndex) == <<function.name, paramIndex>>

\* visitFunctionDefinition at PreVisit.
visitFunctionDefinitionPre(function, st) ==
    LET paramCount == Len(function.params)
        returnTypeId == getTypeData(function.returnType)
        paramTypeIds ==
            [k \in 1..paramCount |->
                IF function.params[k].qualifier # "EvqConst"
                THEN getTypePointerId(getTypeData(function.params[k]), "Function")
                ELSE getTypeData(function.params[k])]
        functionTypeId == getFunctionTypeId(returnTypeId, paramTypeIds)
        functionId == st.nextId
        declared ==
            [getNewId(st) EXCEPT !.mSpirvFunctions =
                Append(@, Instr("OpFunction", returnTypeId, functionId,
                                <<functionTypeId>>, <<>>))]
        Param[k \in 0..paramCount] ==
            IF k = 0 THEN declared
            ELSE LET acc == Param[k - 1]
                     paramId == acc.nextId
                     paramVariable == ParamVariable(function, k)
                     st0 == Check(acc, SymbolCount(acc, paramVariable) = 0,
                                  "visitFunctionDefinition")
                 IN  SetSymbolId(
                         [getNewId(st0) EXCEPT !.mSpirvFunctions =
                             Append(@, Instr("OpFunctionParameter", paramTypeIds[k],
                                             paramId, <<>>, <<>>))],
                         paramVariable, paramId)
    IN  Bind(startNewFunction(Param[paramCount], functionId, function.name),
             LAMBDA started :
             SetSymbolId(Check(started,
                               SymbolCount(started, FunctionSymbol(function.name)) = 0,
                               "visitFunctionDefinition"),
                         FunctionSymbol(function.name), functionId))

\* visitFunctionDefinition at PostVisit.
visitFunctionDefinitionPost(function, st) ==
    LET returned ==
            IF ~st.isTerminated
            THEN terminateCurrentFunctionBlock(
                     Write(Check(st, function.returnType.basic = "EbtVoid",
                                 "visitFunctionDefinition"),
                           Instr("OpReturn", NoType, NoId, <<>>, <<>>)))
            ELSE st
    IN  Bind(assembleSpirvFunctionBlocks(returned), LAMBDA assembled :
             [assembled EXCEPT !.mSpirvFunctions =
                 Append(@, Instr("OpFunctionEnd", NoType, NoId, <<>>, <<>>))])

\* The function a call names, as createFunctionCall looks it up.
CalledFunctionId(function, st) ==
    [st |-> Check(st, SymbolCount(st, FunctionSymbol(function.name)) > 0,
                  "createFunctionCall"),
     id |-> SymbolId(st, FunctionSymbol(function.name))]

\* OutputSPIRV after the traversal: the blob goes to the sink.
OutputSPIRV(st) ==
    [st EXCEPT !.binary = st.mSpirvDebug \o st.mSpirvFunctions,
               !.result = "true"]

(***************************************************************************)
(* SpecUnit: a translation unit of the functions of UnitFunctions, whose   *)
(* bodies are made of expression statements, calls, return, if/else and    *)
(* the statements the generator does not implement.                        *)
(***************************************************************************)
\* The most statements of the body of main, nested ones included.
MaxStatements == 3
\* The deepest nesting of if/else statements.
MaxNesting == 2

\* float f(float p) and void main().
UnitFunctions ==
    {[name |-> "f", returnType |-> TType("EbtFloat", 1, 1, 0, "EvqTemporary"),
      params |-> <<TType("EbtFloat", 1, 1, 0, "EvqIn")>>],
     [name |-> "main", returnType |-> VoidType, params |-> <<>>]}

\* The globals float x and bool b.
UnitSymbols ==
    {Symbol(10, TType("EbtFloat", 1, 1, 0, "EvqGlobal")),
     Symbol(16, TType("EbtBool", 1, 1, 0, "EvqGlobal"))}

\* The flow operators visitBranch does not implement.
UnimplementedFlowOps == {"EOpKill", "EOpBreak", "EOpContinue"}

InitUnit ==
    /\ mNodeData = <<>>
    /\ astType = <<>>
    /\ path = <<>>
    /\ mBuilder = UnitBuilder
    /\ last = [visit |-> "none", op |-> "none", nodeType |-> VoidType,
               args |-> <<>>, types |-> <<>>, params |-> <<>>, from |-> 0,
               nextId |-> UnitBuilder.nextId, vars |-> 0]
    /\ pc = "global"

\* Whether the function called name has been defined.
IsDefined(name) ==
    \E k \in 1..Len(mBuilder.mSpirvDebug) : mBuilder.mSpirvDebug[k].lits = <<name>>

\* The function whose body is being traversed.
CurrentFunction == CHOOSE function \in UnitFunctions : function.name = path[1].op

\* The most statements of the body of a function: f is a single statement.
StatementBudget(function) == IF function.name = "main" THEN MaxStatements ELSE 1

\* The statements of the current function that are finished, counted in the
\* path entry of the function, and those that are open.
StatementCount(p) ==
    p[1].nargs + Cardinality({k \in 1..Len(p) : p[k].node = "ifelse"})

\* Whether the traversal stands in a block, at the start of a statement.
\* No statement follows a return in its block.
AtStatement ==
    /\ pc = "stmt"
    /\ path # <<>>
    /\ Back(path).node = "block"
    /\ StatementCount(path) < StatementBudget(CurrentFunction)
    /\ ~mBuilder.isTerminated

VisitFunctionDefinitionPre(function) ==
    /\ pc = "global"
    /\ ~IsDefined(function.name)
    /\ mBuilder' = visitFunctionDefinitionPre(function, Entering)
    /\ path' = <<PathEntry("function", function.name, Len(mNodeData), 0,
                           function.returnType)>>
    /\ pc' = "body"
    /\ last' = Visited("visitFunctionDefinition", "PreVisit", function.returnType,
                       <<>>, <<>>, function.params)
    /\ UNCHANGED <<mNodeData, astType>>

\* A function with a return type returns a value somewhere in its body.
ReturnsValue(function, st) ==
    \/ function.returnType.basic = "EbtVoid"
    \/ \E k \in 1..Len(st.block) : st.block[k].op = "OpReturnValue"
    \/ \E b \in 1..Len(st.blocks) :
          \E k \in 1..Len(st.blocks[b].body) :
             st.blocks[b].body[k].op = "OpReturnValue"

VisitFunctionDefinitionPost ==
    /\ pc = "after"
    /\ Back(path).node = "function"
    /\ ReturnsValue(CurrentFunction, mBuilder)
    /\ mBuilder' = visitFunctionDefinitionPost(CurrentFunction, Entering)
    /\ path' = <<>>
    /\ pc' = "global"
    /\ last' = Visited("visitFunctionDefinition", "PostVisit",
                       CurrentFunction.returnType, <<>>, <<>>, <<>>)
    /\ UNCHANGED <<mNodeData, astType>>

\* visitBlock at PreVisit of the body of a function or of an if/else; the
\* children of a block without statements are not traversed.
VisitBlockPre(isEmpty) ==
    /\ pc = "body"
    /\ path' = IF isEmpty THEN path
               ELSE Append(path, PathEntry("block", "none", Len(mNodeData), 0,
                                           VoidType))
    /\ pc' = IF isEmpty THEN "after" ELSE "stmt"
    /\ mBuilder' = Entering
    /\ last' = Visited("visitBlock", "PreVisit", VoidType, <<>>, <<>>, <<>>)
    /\ UNCHANGED <<mNodeData, astType>>

\* visitBlock at InVisit and PostVisit: the statement's data is popped.
VisitBlockStatement(visit) ==
    /\ pc \in {"chain", "end"}
    /\ path # <<>>
    /\ Back(path).node = "block"
    /\ mNodeData # <<>>
    /\ visit = "InVisit" =>
          /\ StatementCount(path) + 1 < StatementBudget(CurrentFunction)
          /\ ~mBuilder.isTerminated
    /\ mNodeData' = PopBack(mNodeData)
    /\ astType' = PopBack(astType)
    /\ mBuilder' = Entering
    /\ path' = LET counted == [path EXCEPT ![1].nargs = @ + 1]
               IN  IF visit = "InVisit" THEN counted ELSE PopBack(counted)
    /\ pc' = IF visit = "InVisit" THEN "stmt" ELSE "after"
    /\ last' = Visited("visitBlock", visit, VoidType, <<Back(mNodeData)>>,
                       <<Back(astType)>>, <<>>)

VisitIfElsePre(hasTrueBlock, hasFalseBlock) ==
    /\ AtStatement
    /\ hasTrueBlock \/ hasFalseBlock
    /\ Cardinality({k \in 1..Len(path) : path[k].node = "ifelse"}) < MaxNesting
    /\ path' = Append(path, PathEntry("ifelse",
                                      IfElseShape(IfElseNode(hasTrueBlock,
                                                             hasFalseBlock)),
                                      Len(mNodeData), 0, VoidType))
    /\ pc' = "operand"
    /\ mBuilder' = visitIfElse("PreVisit", IfElseNode(hasTrueBlock, hasFalseBlock),
                               0, mNodeData, Entering).st
    /\ last' = Visited("visitIfElse", "PreVisit", VoidType, <<>>, <<>>, <<>>)
    /\ UNCHANGED <<mNodeData, astType>>

\* visitIfElse after a child: InVisit while a child is left, PostVisit after
\* the last one.
VisitIfElseChild ==
    /\ path # <<>>
    /\ Back(path).node = "ifelse"
    /\ pc = IF Back(path).nargs = 0 THEN "chain" ELSE "after"
    /\ LET node == IfElseOfShape(Back(path).op)
           lastChildIndex == Back(path).nargs
           visit == IF lastChildIndex = node.childCount - 1 THEN "PostVisit"
                    ELSE "InVisit"
           r == visitIfElse(visit, node, lastChildIndex, mNodeData, Entering)
       IN  /\ mNodeData' = r.stack
           /\ mBuilder' = r.st
           /\ path' = IF visit = "PostVisit" THEN PopBack(path)
                      ELSE SetBack(path, [Back(path) EXCEPT !.nargs = @ + 1])
           /\ pc' = IF visit = "PostVisit" THEN "end" ELSE "body"
           /\ last' = Visited("visitIfElse", visit, VoidType, <<Back(mNodeData)>>,
                              <<>>, <<lastChildIndex>>)
    /\ UNCHANGED astType

\* visitUnary: not implemented at either visit.
VisitUnary(visit) ==
    /\ IF visit = "PreVisit" THEN AtStatement
       ELSE pc = "chain" /\ path # <<>> /\ Back(path).node = "unary"
    /\ mBuilder' = Check(Entering, FALSE, "UNIMPLEMENTED")
    /\ path' = IF visit = "PreVisit"
               THEN Append(path, PathEntry("unary", "EOpNegative", Len(mNodeData),
                                           1, VoidType))
               ELSE PopBack(path)
    /\ pc' = IF visit = "PreVisit" THEN "operand" ELSE "end"
    /\ last' = Visited("visitUnary", visit, VoidType, <<>>, <<>>, <<>>)
    /\ UNCHANGED <<mNodeData, astType>>

\* visitBranch of discard, break and continue, which have no child.
VisitBranchUnimplemented(flowOp, visit) ==
    /\ IF visit = "PreVisit" THEN AtStatement
       ELSE pc = "flow" /\ Back(path).op = flowOp
    /\ mNodeData' = IF visit = "PreVisit" THEN Append(mNodeData, EmptyNodeData)
                    ELSE mNodeData
    /\ astType' = IF visit = "PreVisit" THEN Append(astType, VoidType) ELSE astType
    /\ mBuilder' = IF visit = "PreVisit" THEN Entering
                   ELSE Check(Entering, FALSE, "UNIMPLEMENTED")
    /\ path' = IF visit = "PreVisit"
               THEN Append(path, PathEntry("branch", flowOp, Len(mNodeData) + 1, 0,
                                           VoidType))
               ELSE PopBack(path)
    /\ pc' = IF visit = "PreVisit" THEN "flow" ELSE "end"
    /\ last' = Visited("visitBranch", flowOp, VoidType, <<>>, <<>>, <<>>)

\* visitAggregate at PostVisit of the call function(x).
VisitUnitCallPost(function) ==
    /\ pc = "chain"
    /\ path # <<>>
    /\ Back(path).node = "aggregate"
    /\ Len(mNodeData) = Back(path).base + Back(path).nargs
    /\ function.name # CurrentFunction.name
    /\ LET called == CalledFunctionId(function, Entering)
           node == [AggregateNode("EOpCallFunctionInAST", function.returnType,
                                  function.params)
                       EXCEPT !.function.id = called.id]
           r == visitAggregatePost(node, mNodeData, called.st)
       IN  /\ ValidAggregate(node, Children(mNodeData))
           /\ mNodeData' = r.stack
           /\ mBuilder' = IF called.id = NoId
                          THEN SetSymbolId(r.st, FunctionSymbol(function.name),
                                           NoId)
                          ELSE r.st
           /\ astType' = Append(SubSeq(astType, 1, Len(r.stack) - 1), node.type)
           /\ last' = Visited("visitAggregate", node.op, node.type,
                              Children(mNodeData), Children(astType),
                              <<function.name>>)
    /\ path' = PopBack(path)
    /\ pc' = "end"

\* OutputSPIRV returns once the root block has been traversed.
OutputSPIRVReturn ==
    /\ pc = "global"
    /\ IsDefined("main")
    /\ mBuilder' = OutputSPIRV(Entering)
    /\ pc' = "returned"
    /\ last' = Visited("OutputSPIRV", "none", VoidType, <<>>, <<>>, <<>>)
    /\ UNCHANGED <<mNodeData, astType, path>>

\* A return statement carries a value when the function has a return type.
ReturnOf(function) == function.returnType.basic # "EbtVoid"

NextUnit ==
    \/ \E function \in UnitFunctions : VisitFunctionDefinitionPre(function)
    \/ \E isEmpty \in BOOLEAN : VisitBlockPre(isEmpty)
    \/ \E symbol \in UnitSymbols :
          /\ path # <<>>
          /\ pc = "stmt" => AtStatement
          /\ (Back(path).node = "ifelse") = (symbol.type.basic = "EbtBool")
          /\ VisitSymbol(symbol)
    \/ AtStatement /\ VisitBranchPre(ReturnOf(CurrentFunction))
    \/ path # <<>> /\ Back(path).op = "EOpReturn" /\ VisitBranchPost
    \/ \E hasTrueBlock, hasFalseBlock \in BOOLEAN :
          VisitIfElsePre(hasTrueBlock, hasFalseBlock)
    \/ VisitIfElseChild
    \/ AtStatement /\ VisitAggregatePre("EOpCallFunctionInAST", 1)
    \/ \E function \in UnitFunctions : VisitUnitCallPost(function)
    \/ \E visit \in {"PreVisit", "PostVisit"} : VisitUnary(visit)
    \/ \E flowOp \in UnimplementedFlowOps :
          \E visit \in {"PreVisit", "PostVisit"} :
             VisitBranchUnimplemented(flowOp, visit)
    \/ \E visit \in {"InVisit", "PostVisit"} : VisitBlockStatement(visit)
    \/ VisitFunctionDefinitionPost
    \/ OutputSPIRVReturn

SpecUnit == InitUnit /\ [][NextUnit]_vars

(***************************************************************************)
(* SpecBuiltIn: a main whose statements are references to the built-in     *)
(* variables that are defined when first used.                             *)
(***************************************************************************)
\* The key of a variable in mSymbolIdMap.
VariableSymbol(name) == <<name, 0>>

\* The switch of getSymbolIdAndStorageClass: the name, the decoration and
\* the SPIR-V type of the variable of a qualifier.
ImplicitBuiltIn(qualifier) ==
    CASE qualifier = "EvqVertexID" ->
            [name |-> "gl_VertexIndex", builtIn |-> "VertexIndex",
             basic |-> "EbtInt", primarySize |-> 1, implemented |-> TRUE]
      [] qualifier = "EvqInstanceID" ->
            [name |-> "gl_InstanceIndex", builtIn |-> "InstanceIndex",
             basic |-> "EbtInt", primarySize |-> 1, implemented |-> TRUE]
      [] qualifier = "EvqNumWorkGroups" ->
            [name |-> "gl_NumWorkGroups", builtIn |-> "NumWorkgroups",
             basic |-> "EbtUInt", primarySize |-> 3, implemented |-> TRUE]
      [] qualifier = "EvqWorkGroupID" ->
            [name |-> "gl_WorkGroupID", builtIn |-> "WorkgroupId",
             basic |-> "EbtUInt", primarySize |-> 3, implemented |-> TRUE]
      [] qualifier = "EvqLocalInvocationID" ->
            [name |-> "gl_LocalInvocationID", builtIn |-> "LocalInvocationId",
             basic |-> "EbtUInt", primarySize |-> 3, implemented |-> TRUE]
      [] qualifier = "EvqGlobalInvocationID" ->
            [name |-> "gl_GlobalInvocationID", builtIn |-> "GlobalInvocationId",
             basic |-> "EbtUInt", primarySize |-> 3, implemented |-> TRUE]
      [] qualifier = "EvqLocalInvocationIndex" ->
            [name |-> "gl_LocalInvocationIndex", builtIn |-> "LocalInvocationIndex",
             basic |-> "EbtUInt", primarySize |-> 1, implemented |-> TRUE]
      [] OTHER ->
            [name |-> "", builtIn |-> "Max", basic |-> "EbtFloat",
             primarySize |-> 1, implemented |-> FALSE]

\* A lookup that defines the variable again at every reference.
getSymbolIdAndStorageClassAnew(symbol, type, st) ==
    LET builtIn == ImplicitBuiltIn(type.qualifier)
        varId == st.nextId
        declared == declareVariable(st, getSpirvTypeData(builtIn.basic,
                                                         builtIn.primarySize),
                                    GetStorageClass(type), builtIn.name)
    IN  [st |-> SetSymbolId(
                    [declared EXCEPT
                        !.mEntryPointInterfaceList = Append(@, varId),
                        !.mSpirvDecorations =
                            Append(@, Instr("OpDecorate", NoType, NoId, <<varId>>,
                                            <<"BuiltIn", builtIn.builtIn>>))],
                    symbol, varId),
         id |-> varId,
         storageClass |-> GetStorageClass(type)]

getSymbolIdAndStorageClass(symbol, type, st) ==
    IF SymbolCount(st, symbol) > 0
    THEN [st |-> st, id |-> SymbolId(st, symbol),
          storageClass |-> GetStorageClass(type)]
    ELSE LET builtIn == ImplicitBuiltIn(type.qualifier)
             st0 == Check(st, builtIn.implemented, "UNIMPLEMENTED")
             varId == st0.nextId
             declared == declareVariable(st0, getSpirvTypeData(builtIn.basic,
                                                               builtIn.primarySize),
                                         GetStorageClass(type), builtIn.name)
         IN  [st |-> SetSymbolId(
                         [declared EXCEPT
                             !.mEntryPointInterfaceList = Append(@, varId),
                             !.mSpirvDecorations =
                                 Append(@, Instr("OpDecorate", NoType, NoId,
                                                 <<varId>>,
                                                 <<"BuiltIn", builtIn.builtIn>>))],
                         symbol, varId),
              id |-> varId,
              storageClass |-> GetStorageClass(type)]

\* visitSymbol of a variable that is neither const nor in an interface block.
visitSymbolOfMap(symbol, type, stack, st) ==
    Bind(getSymbolIdAndStorageClass(symbol, type, st), LAMBDA found :
         [stack |-> Append(stack, nodeDataInitLValue(found.id, getTypeData(type),
                                                     found.storageClass,
                                                     EbsUnspecified)),
          st |-> found.st])

\* The built-in variables, by the qualifier of their type.
BuiltInType(qualifier) ==
    TType(ImplicitBuiltIn(qualifier).basic, ImplicitBuiltIn(qualifier).primarySize,
          1, 0, qualifier)

\* visitSymbol of a reference to the built-in variable of a qualifier.
VisitImplicitSymbol(qualifier) ==
    /\ AtStatement
    /\ LET type == BuiltInType(qualifier)
           r == visitSymbolOfMap(VariableSymbol(ImplicitBuiltIn(qualifier).name),
                                 type, mNodeData, Entering)
       IN  /\ mNodeData' = r.stack
           /\ mBuilder' = r.st
           /\ astType' = Append(astType, type)
           /\ last' = Visited("visitSymbol", qualifier, type, <<>>, <<>>, <<>>)
    /\ pc' = "chain"
    /\ UNCHANGED path

NextBuiltIn ==
    \/ VisitFunctionDefinitionPre(CHOOSE function \in UnitFunctions :
                                      function.name = "main")
    \/ \E isEmpty \in BOOLEAN : VisitBlockPre(isEmpty)
    \/ \E qualifier \in ImplicitBuiltInQualifiers : VisitImplicitSymbol(qualifier)
    \/ \E visit \in {"InVisit", "PostVisit"} : VisitBlockStatement(visit)
    \/ VisitFunctionDefinitionPost
    \/ OutputSPIRVReturn

SpecBuiltIn == InitUnit /\ [][NextBuiltIn]_vars

(***************************************************************************)
(* SpecCompound: one statement `x += y`, x and y variables of ChainSymbols *)
(* that are indexed or swizzled.                                           *)
(***************************************************************************)
NextCompound ==
    \/ \E symbol \in ChainSymbols : VisitSymbol(symbol)
    \/ \E literal \in 0..3 : VisitIndexDirect(literal)
    \/ \E swizzle \in ChainSwizzles : VisitSwizzle(swizzle)
    \/ VisitBinaryIn("EOpAddAssign", 1)
    \/ VisitBinaryPost
    \/ VisitBlockPost

SpecCompound == Init /\ [][NextCompound]_vars

(***************************************************************************)
(* SpecStores: one statement that stores: an assignment, a compound        *)
(* assignment or a call f(x) of a function whose parameter is in, out,     *)
(* inout or const, over the variables of ChainSymbols.                     *)
(***************************************************************************)
NextStores ==
    \/ \E symbol \in ChainSymbols : VisitSymbol(symbol)
    \/ VisitIndexDirect(1)
    \/ VisitSwizzle(<<2, 0>>)
    \/ \E op \in {"EOpAssign", "EOpAddAssign", "EOpIndexIndirect"} :
          VisitBinaryIn(op, MaxDepth)
    \/ VisitBinaryPost
    \/ VisitAggregatePre("EOpCallFunctionInAST", 1)
    \/ \E quals \in [1..1 -> ParamQualifiers] :
          \E returnType \in ReturnTypes : VisitCallPost(quals, returnType)
    \/ VisitBlockPost

SpecStores == Init /\ [][NextStores]_vars

(***************************************************************************)
(* SpecSwizzleIndex: the statements of Spec, and a constant index of a     *)
(* swizzle, `v.zx[1]`.                                                     *)
(***************************************************************************)
\* visitBinary at InVisit of node[literal] whose left operand is a swizzle of
\* two or more components.
VisitIndexDirectOfSwizzle(literal) ==
    /\ pc = "chain"
    /\ mNodeData # <<>>
    /\ LET t == Back(astType)
           nodeType == IndexedType(t)
       IN  /\ ~isArray(t) /\ isVector(t)
           /\ literal \in 0..(t.primarySize - 1)
           /\ Back(mNodeData).accessChain.swizzles # <<>>
           /\ mNodeData' = SetBack(mNodeData,
                  accessChainPushLiteral(Back(mNodeData), literal,
                                         getTypeData(nodeType)))
           /\ astType' = SetBack(astType, nodeType)
           /\ last' = Visited("visitBinary", "EOpIndexDirect", nodeType,
                              <<Back(mNodeData)>>, <<t>>, <<>>)
    /\ mBuilder' = Entering
    /\ UNCHANGED <<path, pc>>

NextSwizzleIndex ==
    \/ Next
    \/ \E literal \in 0..1 : VisitIndexDirectOfSwizzle(literal)

SpecSwizzleIndex == Init /\ [][NextSwizzleIndex]_vars

(***************************************************************************)
(* visitDeclaration, constants as operands and blocks opened for scoping.  *)
(***************************************************************************)
\* mBuilder.declareVariable() with the initializer, invalid when there is none.
declareVariableInitialized(st, typeId, storageClass, initializerId, name) ==
    [st EXCEPT !.nextId = @ + 1,
               !.variables = Append(@, [id |-> st.nextId, type |-> typeId,
                                        storageClass |-> storageClass,
                                        name |-> name,
                                        initializer |-> initializerId])]

\* visitDeclaration at PreVisit; mIsSymbolBeingDeclared is set as well.
visitDeclarationPre(inGlobalScope, stack) ==
    IF ~inGlobalScope THEN Append(stack, EmptyNodeData) ELSE stack

\* The initializer of a declaration: its id, and the stack without its data.
DeclarationInitializer(initializer, stack, st) ==
    CASE initializer = "none" -> [id |-> NoId, stack |-> stack, st |-> st]
      [] initializer = "constant" ->
            [id |-> Back(stack).baseId, stack |-> PopBack(stack), st |-> st]
      [] OTHER ->
            Bind(accessChainLoad(Back(stack), st),
                 LAMBDA r : [id |-> r.id, stack |-> PopBack(stack), st |-> r.st])

\* visitDeclaration at PostVisit of the declaration of symbol, whose
\* initializer is "none", "constant" or "symbol".
visitDeclarationPost(symbol, initializer, stack, st) ==
    LET init == DeclarationInitializer(initializer, stack, st)
        initializeWithDeclaration == initializer = "constant"
        typeId == getTypeData(symbol.type)
        storageClass == GetStorageClass(symbol.type)
        variableId == init.st.nextId
        st1 == declareVariableInitialized(init.st, typeId, storageClass,
                   IF initializeWithDeclaration THEN init.id ELSE NoId,
                   symbol.name)
        st2 == IF ~initializeWithDeclaration /\ init.id # NoId
               THEN Write(st1, Instr("OpStore", NoType, NoId,
                                     <<variableId, init.id>>, <<>>))
               ELSE st1
        st3 == Check(st2, SymbolCount(st2, VariableSymbol(symbol.name)) = 0,
                     "visitDeclaration")
    IN  [stack |-> init.stack,
         st |-> SetSymbolId(st3, VariableSymbol(symbol.name), variableId)]

\* What mNodeData.pop_back() on an empty vector can do: the traversal
\* stops, or it goes on with a stack whose records are lost.
PopEmptyOutcomes == {"stops", "goes on"}

\* visitBlock at InVisit and PostVisit of a block inside a function.
visitBlockChild(stack, st) ==
    IF stack # <<>> THEN [stack |-> PopBack(stack), st |-> st]
    ELSE [stack |-> <<>>, st |-> Check(st, FALSE, "mNodeData.pop_back()")]

(***************************************************************************)
(* SpecScopes: a translation unit of the global `float g = 1.0;` and of    *)
(* the functions of UnitFunctions, whose bodies are made of expression     *)
(* statements, declarations, return and blocks opened for scoping.         *)
(***************************************************************************)
\* The variables that are declared: the global g and the local y.
DeclaredSymbols ==
    {[name |-> "g", type |-> TType("EbtFloat", 1, 1, 0, "EvqGlobal")],
     [name |-> "y", type |-> TType("EbtFloat", 1, 1, 0, "EvqTemporary")]}

\* The initializers of a declaration.
Initializers == {"none", "constant", "symbol"}

\* The float constants 1.0 and 2.0.
ScopeConstants ==
    {<<ConstantUnion("EbtFloat", value)>> : value \in 1..2}

\* The variable of the declaration the traversal is in.
DeclaredSymbol == CHOOSE symbol \in DeclaredSymbols : symbol.type = Back(path).type

\* Whether the traversal is inside the declaration node.
InDeclaration == path # <<>> /\ Back(path).node = "declaration"

\* mInGlobalScope, which the traversal of a function definition clears.
mInGlobalScope == \A k \in 1..Len(path) : path[k].node # "function"

\* A global whose initializer is not a constant is initialized in main; the
\* variable is declared once.
VisitDeclarationPre(symbol, initializer) ==
    /\ IF symbol.type.qualifier = "EvqGlobal"
       THEN pc = "global" /\ initializer # "symbol"
       ELSE AtStatement
    /\ SymbolCount(mBuilder, VariableSymbol(symbol.name)) = 0
    /\ mNodeData' = visitDeclarationPre(mInGlobalScope, mNodeData)
    /\ astType' = IF mInGlobalScope THEN astType ELSE Append(astType, VoidType)
    /\ path' = Append(path, PathEntry("declaration", initializer,
                                      Len(mNodeData), 0, symbol.type))
    /\ pc' = "declared"
    /\ mBuilder' = Entering
    /\ last' = Visited("visitDeclaration", "PreVisit", symbol.type, <<>>, <<>>,
                       <<>>)

\* visitSymbol of the symbol being declared, after visitBinary at PreVisit
\* of the initialization when there is one: neither pushes a record.
VisitSymbolBeingDeclared ==
    /\ pc = "declared"
    /\ InDeclaration
    /\ pc' = IF Back(path).op = "none" THEN "declaration" ELSE "initialize"
    /\ mBuilder' = Entering
    /\ last' = Visited("visitSymbol", "declared", Back(path).type, <<>>, <<>>,
                       <<>>)
    /\ UNCHANGED <<mNodeData, astType, path>>

\* visitBinary at InVisit of the EOpInitialize node.
VisitInitializeIn ==
    /\ pc = "initialize"
    /\ InDeclaration
    /\ mBuilder' = Check(Entering, Len(mNodeData) >= 1, "visitBinary InVisit")
    /\ pc' = "operand"
    /\ last' = Visited("visitBinary", "EOpInitialize", VoidType, mNodeData,
                       <<>>, <<>>)
    /\ UNCHANGED <<mNodeData, astType, path>>

\* visitConstantUnion of an operand: the basic type expected is that of the
\* constant unless the parent is an aggregate.
VisitConstantUnion(type, constUnion, expectedBasicType) ==
    /\ pc = "operand"
    /\ path # <<>>
    /\ Back(path).node # "aggregate" => expectedBasicType = type.basic
    /\ Back(path).node = "declaration" => Back(path).op = "constant"
    /\ Len(constUnion) = getObjectSize(type)
    /\ LET r == visitConstantUnion(type, constUnion, expectedBasicType,
                                   mNodeData, Entering)
       IN  /\ mNodeData' = r.stack
           /\ mBuilder' = r.st
    /\ astType' = Append(astType, type)
    /\ last' = Visited("visitConstantUnion", expectedBasicType, type,
                       <<constUnion>>, <<type>>, <<>>)
    /\ pc' = "chain"
    /\ UNCHANGED path

\* visitBinary at PostVisit of the EOpInitialize node: the code is generated
\* by visitDeclaration.
VisitInitializePost ==
    /\ pc = "chain"
    /\ InDeclaration
    /\ Len(mNodeData) > Back(path).base
    /\ pc' = "declaration"
    /\ mBuilder' = Entering
    /\ last' = Visited("visitBinary", "EOpInitialize", VoidType, <<>>, <<>>,
                       <<>>)
    /\ UNCHANGED <<mNodeData, astType, path>>

VisitDeclarationPost ==
    /\ pc = "declaration"
    /\ InDeclaration
    /\ LET r == visitDeclarationPost(DeclaredSymbol, Back(path).op, mNodeData,
                                     Entering)
       IN  /\ mNodeData' = r.stack
           /\ mBuilder' = r.st
           /\ astType' = SubSeq(astType, 1, Len(r.stack))
    /\ last' = Visited("visitDeclaration", "PostVisit", Back(path).type,
                       mNodeData, <<>>, <<>>)
    /\ path' = PopBack(path)
    /\ pc' = IF Len(path) = 1 THEN "global" ELSE "end"

\* The blocks of the path, the body of the function included.
BlockDepth == Cardinality({k \in 1..Len(path) : path[k].node = "block"})

\* visitBlock at PreVisit of a block that is a statement of a block: it
\* pushes nothing, and the children of an empty block are not traversed.
VisitScopeBlockPre(isEmpty) ==
    /\ AtStatement
    /\ BlockDepth <= MaxNesting
    /\ ~isEmpty => StatementCount(path) + 1 < StatementBudget(CurrentFunction)
    /\ path' = IF isEmpty THEN path
               ELSE Append(path, PathEntry("block", "scope", Len(mNodeData), 0,
                                           VoidType))
    /\ pc' = IF isEmpty THEN "end" ELSE "stmt"
    /\ mBuilder' = Entering
    /\ last' = Visited("visitBlock", "PreVisit", VoidType, <<>>, <<>>,
                       <<isEmpty>>)
    /\ UNCHANGED <<mNodeData, astType>>

\* visitBlock after a child: InVisit while a statement is left, PostVisit
\* after the last one.
VisitBlockChild(visit, outcome) ==
    /\ pc \in {"chain", "end"}
    /\ path # <<>>
    /\ Back(path).node = "block"
    /\ visit = "InVisit" =>
          /\ StatementCount(path) + 1 < StatementBudget(CurrentFunction)
          /\ ~mBuilder.isTerminated
    /\ (outcome = "pops") = (mNodeData # <<>>)
    /\ LET r == visitBlockChild(mNodeData, Entering)
       IN  /\ mNodeData' = r.stack
           /\ mBuilder' = r.st
           /\ astType' = SubSeq(astType, 1, Len(r.stack))
    /\ path' = LET counted == [path EXCEPT ![1].nargs = @ + 1]
               IN  IF visit = "InVisit" THEN counted ELSE PopBack(counted)
    /\ pc' = CASE outcome = "stops" -> "stopped"
               [] visit = "InVisit" -> "stmt"
               [] Back(path).op = "scope" -> "end"
               [] OTHER -> "after"
    /\ last' = Visited("visitBlock", visit, VoidType, mNodeData, <<>>,
                       <<outcome>>)

NextScopes ==
    \/ \E symbol \in DeclaredSymbols :
          \E initializer \in Initializers : VisitDeclarationPre(symbol, initializer)
    \/ VisitSymbolBeingDeclared
    \/ VisitInitializeIn
    \/ \E constUnion \in ScopeConstants :
          VisitConstantUnion(TType("EbtFloat", 1, 1, 0, "EvqConst"), constUnion,
                             "EbtFloat")
    \/ VisitInitializePost
    \/ VisitDeclarationPost
    \/ \E function \in UnitFunctions : VisitFunctionDefinitionPre(function)
    \/ \E isEmpty \in BOOLEAN : VisitBlockPre(isEmpty)
    \/ \E symbol \in UnitSymbols :
          /\ path # <<>>
          /\ pc = "stmt" => AtStatement
          /\ Back(path).node = "declaration" => Back(path).op = "symbol"
          /\ symbol.type.basic = "EbtFloat"
          /\ VisitSymbol(symbol)
    \/ AtStatement /\ VisitBranchPre(ReturnOf(CurrentFunction))
    \/ path # <<>> /\ Back(path).op = "EOpReturn" /\ VisitBranchPost
    \/ \E isEmpty \in BOOLEAN : VisitScopeBlockPre(isEmpty)
    \/ \E visit \in {"InVisit", "PostVisit"} :
          \E outcome \in {"pops"} \cup PopEmptyOutcomes :
             VisitBlockChild(visit, outcome)
    \/ VisitFunctionDefinitionPost
    \/ OutputSPIRVReturn

SpecScopes == InitUnit /\ [][NextScopes]_vars

(***************************************************************************)
(* SpecConstants: one statement `return k;` or `f(k);`, k a constant of    *)
(* one of ConstantTypes.                                                   *)
(***************************************************************************)
\* The types of the constants: the scalars, vec2, ivec3, mat2, mat2x3,
\* float[2] and vec2[2].
ConstantTypes ==
    {TType(b, 1, 1, 0, "EvqConst") : b \in BasicTypes}
    \cup {TType("EbtFloat", 2, 1, 0, "EvqConst"),
          TType("EbtInt", 3, 1, 0, "EvqConst"),
          TType("EbtFloat", 2, 2, 0, "EvqConst"),
          TType("EbtFloat", 2, 3, 0, "EvqConst"),
          TType("EbtFloat", 1, 1, 2, "EvqConst"),
          TType("EbtFloat", 2, 1, 2, "EvqConst")}

\* The values of a constant of a type: every component is 0 or 1.
ConstantValues(type) ==
    [1..getObjectSize(type) -> {ConstantUnion(type.basic, value) : value \in 0..1}]

NextConstants ==
    \/ VisitBranchPre(TRUE)
    \/ VisitAggregatePre("EOpCallFunctionInAST", 1)
    \/ \E type \in ConstantTypes :
          \E constUnion \in ConstantValues(type) :
             VisitConstantUnion(type, constUnion, type.basic)
    \/ VisitBranchPost
    \/ \E quals \in [1..1 -> {"EvqIn", "EvqConst"}] :
          \E returnType \in ReturnTypes : VisitCallPost(quals, returnType)
    \/ VisitBlockPost

SpecConstants == Init /\ [][NextConstants]_vars

(***************************************************************************)
(* SpecOrder: one expression statement made of an arithmetic, comparison   *)
(* or bitwise operator and of assignment over the float and int variables  *)
(* of ArithSymbols, an operand of an operator being a variable or such an  *)
(* expression.                                                             *)
(***************************************************************************)
\* The operators of the statement.
OrderOps == {"EOpAdd", "EOpLessThan", "EOpBitwiseAnd"}

NextOrder ==
    \/ \E symbol \in ArithSymbols :
          /\ symbol.type.basic \in {"EbtFloat", "EbtInt"}
          /\ ~isMatrix(symbol.type)
          /\ VisitSymbol(symbol)
    \/ \E op \in OrderOps \cup {"EOpAssign"} : VisitBinaryIn(op, MaxDepth + 1)
    \/ VisitBinaryPost
    \/ VisitBlockPost

SpecOrder == Init /\ [][NextOrder]_vars

(***************************************************************************)
(* Properties of the access chain operations.                              *)
(***************************************************************************)
\* The instructions a logged call added to the block of builder st.
EmittedIn(st, e) == SubSeq(st.block, e.from + 1, e.to)

Emitted(e) == EmittedIn(mBuilder, e)

CountOp(seq, op) == Cardinality({k \in 1..Len(seq) : seq[k].op = op})

\* OpVectorShuffle of vectors a and b under a mask.
Shuffle(mask, a, b) ==
    [k \in 1..Len(mask) |->
        IF mask[k] < Len(a) THEN a[mask[k] + 1] ELSE b[mask[k] - Len(a) + 1]]

IsSwizzleStore(e) ==
    /\ e.fn = "accessChainStore"
    /\ ~IsAccessChainRValue(e.data.accessChain)
    /\ Len(e.data.accessChain.swizzles) >= 2
    /\ \A j, k \in 1..Len(e.data.accessChain.swizzles) :
          e.data.accessChain.swizzles[j] = e.data.accessChain.swizzles[k] => j = k

SwizzleStoreEmits(e) ==
    LET swizzles == e.data.accessChain.swizzles
        n == e.data.accessChain.preSwizzleTypeId.primarySize
        out == Emitted(e)
        m == Len(out)
    IN  /\ m >= 3
        /\ CountOp(out, "OpLoad") = 1
        /\ CountOp(out, "OpVectorShuffle") = 1
        /\ CountOp(out, "OpStore") = 1
        /\ out[m - 2].op = "OpLoad"
        /\ out[m - 2].type = e.data.accessChain.preSwizzleTypeId
        /\ out[m - 1].op = "OpVectorShuffle"
        /\ out[m - 1].ids = <<out[m - 2].result, e.value>>
        /\ Len(out[m - 1].lits) = n
        /\ \A c \in 0..(n - 1) :
              IF \E j \in 1..Len(swizzles) : swizzles[j] = c
              THEN \A j \in 1..Len(swizzles) :
                      swizzles[j] = c => out[m - 1].lits[c + 1] = n + (j - 1)
              ELSE out[m - 1].lits[c + 1] = c
        /\ out[m].op = "OpStore"
        /\ out[m].ids = <<out[m - 2].ids[1], out[m - 1].result>>
        /\ (swizzles = <<2, 0>> /\ n = 4) =>
              Shuffle(out[m - 1].lits, <<"a", "b", "c", "d">>, <<"p", "q">>)
                  = <<"q", "b", "p", "d">>

\* C1: a store through an lvalue chain with a pending swizzle of two or more
\* distinct components over an n-vector emits, in this order, one OpLoad of
\* the whole vector, one OpVectorShuffle of (loaded, value) whose n-entry mask
\* is the identity except that entry s_j is n + j, and one OpStore of the
\* shuffle result to the pointer that was loaded; `v.zx = u` stores (q,b,p,d).
C1_SwizzleStore ==
    \A k \in 1..Len(mBuilder.log) :
        IsSwizzleStore(mBuilder.log[k]) => SwizzleStoreEmits(mBuilder.log[k])

\* `v.zx = u` has been lowered: the mask of the shuffle is {5, 1, 4, 3}.
C1_Witness ==
    /\ last.visit = "visitBinary" /\ last.op = "EOpAssign"
    /\ \E k \in 1..Len(mBuilder.log) :
          /\ IsSwizzleStore(mBuilder.log[k])
          /\ mBuilder.log[k].data.baseId = 1
          /\ mBuilder.log[k].data.accessChain.swizzles = <<2, 0>>
    /\ mBuilder.block # <<>>
    /\ Back(mBuilder.block).op = "OpStore"
    /\ mBuilder.block[Len(mBuilder.block) - 1].lits = <<5, 1, 4, 3>>

IsLiteralRValueLoad(e) ==
    /\ e.fn = "accessChainLoad"
    /\ IsAccessChainRValue(e.data.accessChain)
    /\ e.data.idList # <<>>
    /\ \A k \in 1..Len(e.data.idList) : e.data.idList[k].id = NoId

LiteralRValueLoadEmits(e) ==
    LET out == Emitted(e)
    IN  /\ out # <<>>
        /\ CountOp(out, "OpCompositeExtract") = 1
        /\ out[1].op = "OpCompositeExtract"
        /\ out[1].ids = <<e.data.baseId>>
        /\ out[1].lits = [k \in 1..Len(e.data.idList) |-> e.data.idList[k].literal]
        /\ CountOp(out, "OpAccessChain") = 0
        /\ CountOp(out, "OpLoad") = 0
        /\ e.varsTo = e.varsFrom

\* C2: a load through an rvalue chain whose indices (one or more) are all
\* literal emits exactly one OpCompositeExtract on base_id whose literals are
\* the indices in push order, and no OpAccessChain, no OpLoad and no
\* temporary variable.
C2_LiteralRValueLoad ==
    \A k \in 1..Len(mBuilder.log) :
        IsLiteralRValueLoad(mBuilder.log[k]) => LiteralRValueLoadEmits(mBuilder.log[k])

\* `ca[1][2]` has been loaded with the literal path (1, 2).
C2_Witness ==
    \E k \in 1..Len(mBuilder.log) :
        /\ IsLiteralRValueLoad(mBuilder.log[k])
        /\ mBuilder.log[k].data.baseId = 4
        /\ Len(mBuilder.log[k].data.idList) = 2
        /\ mBuilder.log[k].data.idList[1].literal # mBuilder.log[k].data.idList[2].literal
        /\ Emitted(mBuilder.log[k])[1].lits = <<1, 2>>

\* The record on top of the stack is `v[i]`, v a vector that is not an array
\* and i a dynamic index, and the step being taken loads it.
ReadsDynamicComponent(e) ==
    /\ last.visit = "visitBinary" /\ last.op = "EOpIndexIndirect"
    /\ isVector(last.types[1]) /\ ~isArray(last.types[1])
    /\ mNodeData # <<>>
    /\ e.fn = "accessChainLoad"
    /\ e.data = Back(mNodeData)

\* C3 as stated: reading `v[i]` emits an OpLoad of the whole vector and then
\* one OpVectorExtractDynamic of the loaded value, and no OpAccessChain.
C3_AsStated ==
    [][\A k \in 1..Len(mBuilder'.log) :
          ReadsDynamicComponent(mBuilder'.log[k]) =>
              LET out == EmittedIn(mBuilder', mBuilder'.log[k])
              IN  /\ Len(out) = 2
                  /\ out[1].op = "OpLoad"
                  /\ out[1].type = getTypeData(last.types[1])
                  /\ out[2].op = "OpVectorExtractDynamic"
                  /\ out[2].ids[1] = out[1].result
                  /\ CountOp(out, "OpAccessChain") = 0]_vars

\* C3: reading `v[i]` of an lvalue v emits one OpAccessChain whose last index
\* is the index folded into the chain and then an OpLoad of the component
\* through it, and no OpVectorExtractDynamic; reading `v[i]` of an rvalue v
\* whose indices are all literal emits no OpLoad and no OpAccessChain, and
\* ends with one OpVectorExtractDynamic of the value with index i.
C3_DynamicComponentRead ==
    [][\A k \in 1..Len(mBuilder'.log) :
          ReadsDynamicComponent(mBuilder'.log[k]) =>
              LET e == mBuilder'.log[k]
                  out == EmittedIn(mBuilder', e)
                  m == Len(out)
              IN  /\ ~IsAccessChainRValue(e.data.accessChain) =>
                        /\ m = 2
                        /\ out[1].op = "OpAccessChain"
                        /\ out[1].ids[1] = e.data.baseId
                        /\ out[1].ids[Len(out[1].ids)] = Back(e.data.idList).id
                        /\ Back(e.data.idList).id # NoId
                        /\ e.data.accessChain.dynamicComponent = NoId
                        /\ out[2].op = "OpLoad"
                        /\ out[2].ids = <<out[1].result>>
                        /\ out[2].type = getTypeData(last.nodeType)
                        /\ CountOp(out, "OpVectorExtractDynamic") = 0
                  /\ (/\ IsAccessChainRValue(e.data.accessChain)
                      /\ \A j \in 1..Len(e.data.idList) : e.data.idList[j].id = NoId) =>
                        /\ m >= 1
                        /\ CountOp(out, "OpLoad") = 0
                        /\ CountOp(out, "OpAccessChain") = 0
                        /\ CountOp(out, "OpVectorExtractDynamic") = 1
                        /\ out[m].op = "OpVectorExtractDynamic"
                        /\ out[m].ids[2] = e.data.accessChain.dynamicComponent
                        /\ e.data.accessChain.dynamicComponent # NoId]_vars

\* `return v[i];` has been lowered: the component was loaded through an
\* OpAccessChain on v.
C3_Witness ==
    /\ last.visit = "visitBranch" /\ last.op = "EOpReturn"
    /\ last.args # <<>>
    /\ last.args[1].baseId = 1
    /\ Len(last.args[1].idList) = 1
    /\ last.args[1].idList[1].id # NoId
    /\ Len(mBuilder.block) >= 3
    /\ mBuilder.block[Len(mBuilder.block) - 2].op = "OpAccessChain"
    /\ mBuilder.block[Len(mBuilder.block) - 1].op = "OpLoad"
    /\ Back(mBuilder.block).op = "OpReturnValue"

(***************************************************************************)
(* Properties of function calls, atomic built-ins and constructors.        *)
(***************************************************************************)
AfterCall == last.visit = "visitAggregate" /\ last.op = "EOpCallFunctionInAST"

\* The instructions of the last visit.
LastEmitted == SubSeq(mBuilder.block, last.from + 1, Len(mBuilder.block))

\* The place of the OpFunctionCall of the last visit in the block.
CallIndex ==
    CHOOSE j \in (last.from + 1)..Len(mBuilder.block) :
        mBuilder.block[j].op = "OpFunctionCall"

\* The operand of the call for parameter k.
Operand(k) == mBuilder.block[CallIndex].ids[k + 1]

\* The ids accessChainLoad returned for the record data in the last visit.
LoadOf(data) ==
    {mBuilder.log[j].ret : j \in {i \in 1..Len(mBuilder.log) :
        /\ mBuilder.log[i].fn = "accessChainLoad"
        /\ mBuilder.log[i].data = data}}

\* id is a Function variable the last visit declared.
IsFreshTemp(id) ==
    /\ id >= last.nextId
    /\ \E j \in (last.vars + 1)..Len(mBuilder.variables) :
          /\ mBuilder.variables[j].id = id
          /\ mBuilder.variables[j].storageClass = "Function"

SameChain(d1, d2) ==
    /\ d1.baseId = d2.baseId
    /\ d1.idList = d2.idList
    /\ d1.accessChain.swizzles = d2.accessChain.swizzles

IsOutParam(k) == last.params[k].qualifier \in {"EvqOut", "EvqInOut"}

\* C4 as stated: the operand for an out, inout or opaque parameter whose
\* argument is an unindexed lvalue is the argument's base_id pointer.
C4_AsStated ==
    AfterCall =>
        \A k \in 1..Len(last.args) :
            (/\ IsOutParam(k) \/ IsOpaqueType(last.params[k].basic)
             /\ IsAccessChainUnindexedLValue(last.args[k])) =>
                /\ Operand(k) = last.args[k].baseId
                /\ Operand(k) \notin LoadOf(last.args[k])

NeedsCopyBack(k) ==
    IsOutParam(k) /\ ~IsAccessChainUnindexedLValue(last.args[k])

StoresBeforeCall(temp) ==
    {j \in (last.from + 1)..(CallIndex - 1) :
        /\ mBuilder.block[j].op = "OpStore"
        /\ mBuilder.block[j].ids[1] = temp}

LoadsAfterCall(temp) ==
    {j \in (CallIndex + 1)..Len(mBuilder.block) :
        /\ mBuilder.block[j].op = "OpLoad"
        /\ mBuilder.block[j].ids = <<temp>>}

\* C5: for an out or inout parameter whose argument is not an unindexed
\* lvalue the operand is a fresh Function temporary; an inout temporary (and
\* no out temporary) is stored the argument's loaded value before the call;
\* after the call the temporary is loaded once and stored through the
\* argument's chain; the copy-backs come after the call in parameter order;
\* the temporary of an in parameter is never loaded back.
C5_CopyBack ==
    AfterCall =>
        /\ \A k \in 1..Len(last.args) : NeedsCopyBack(k) =>
              /\ IsFreshTemp(Operand(k))
              /\ \A k2 \in 1..Len(last.args) : k2 # k => Operand(k2) # Operand(k)
              /\ last.params[k].qualifier = "EvqInOut" =>
                    \E j \in StoresBeforeCall(Operand(k)) :
                        mBuilder.block[j].ids[2] \in LoadOf(last.args[k])
              /\ last.params[k].qualifier = "EvqOut" =>
                    StoresBeforeCall(Operand(k)) = {}
              /\ Cardinality(LoadsAfterCall(Operand(k))) = 1
              /\ \A j \in LoadsAfterCall(Operand(k)) :
                    \E i \in 1..Len(mBuilder.log) :
                        /\ mBuilder.log[i].fn = "accessChainStore"
                        /\ mBuilder.log[i].value = mBuilder.block[j].result
                        /\ SameChain(mBuilder.log[i].data, last.args[k])
                        /\ mBuilder.log[i].from >= j
                        /\ mBuilder.block[mBuilder.log[i].to].op = "OpStore"
        /\ \A k1, k2 \in 1..Len(last.args) :
              (NeedsCopyBack(k1) /\ NeedsCopyBack(k2) /\ k1 < k2) =>
                  \A j1 \in LoadsAfterCall(Operand(k1)) :
                      \A j2 \in LoadsAfterCall(Operand(k2)) : j1 < j2
        /\ \A i \in 1..Len(mBuilder.log) :
              mBuilder.log[i].fn = "accessChainStore" =>
                  mBuilder.log[i].from >= CallIndex
        /\ \A k \in 1..Len(last.args) :
              (last.params[k].qualifier = "EvqIn" /\ IsFreshTemp(Operand(k))) =>
                  LoadsAfterCall(Operand(k)) = {}

\* `f(v[1], a[i])`-like calls: an inout and an out parameter were both
\* copied back, and a call with the temporary of an in parameter was made.
C5_Witness ==
    /\ AfterCall
    /\ Len(last.args) = 2
    /\ NeedsCopyBack(1) /\ NeedsCopyBack(2)
    /\ last.params[1].qualifier = "EvqInOut"
    /\ last.params[2].qualifier = "EvqOut"
    /\ LoadsAfterCall(Operand(1)) # {}
    /\ LoadsAfterCall(Operand(2)) # {}
    /\ Back(mBuilder.block).op = "OpStore"

IsValueParam(k) == last.params[k].qualifier \in {"EvqIn", "EvqConst"}

TakesTemp(k) ==
    /\ ~IsOpaqueType(last.params[k].basic)
    /\ last.params[k].qualifier # "EvqConst"
    /\ ~IsAccessChainUnindexedLValue(last.args[k])

IsLoad(e) == e.fn = "accessChainLoad"

\* C7: atomicCompSwap emits one OpAtomicCompareExchange on the collapsed
\* access chain of the first argument (not a loaded value), with scope Device,
\* both memory semantics Relaxed and the operands (data, compare) last;
\* atomicMin and atomicMax take the unsigned opcode exactly when the first
\* argument is uint.
C7_Atomics ==
    /\ (last.visit = "visitAggregate" /\ last.op = "EOpAtomicCompSwap") =>
          LET instr == Back(mBuilder.block)
              loads == SelectSeq(mBuilder.log, IsLoad)
          IN  /\ CountOp(LastEmitted, "OpAtomicCompareExchange") = 1
              /\ instr.op = "OpAtomicCompareExchange"
              /\ Len(instr.ids) = 6
              /\ mBuilder.log[1].fn = "accessChainCollapse"
              /\ mBuilder.log[1].data = last.args[1]
              /\ instr.ids[1] = mBuilder.log[1].ret
              /\ IF last.args[1].idList = <<>>
                 THEN instr.ids[1] = last.args[1].baseId
                 ELSE \E j \in 1..Len(LastEmitted) :
                         /\ LastEmitted[j].op = "OpAccessChain"
                         /\ LastEmitted[j].result = instr.ids[1]
                         /\ LastEmitted[j].ids[1] = last.args[1].baseId
              /\ \A j \in 1..Len(LastEmitted) :
                    LastEmitted[j].op = "OpLoad" =>
                        LastEmitted[j].result # instr.ids[1]
              /\ instr.ids[2] = getUintConstant(ScopeDevice)
              /\ instr.ids[3] = getUintConstant(MemorySemanticsMaskNone)
              /\ instr.ids[4] = getUintConstant(MemorySemanticsMaskNone)
              /\ Len(loads) = 2
              /\ loads[1].data = last.args[2]
              /\ loads[2].data = last.args[3]
              /\ instr.ids[5] = loads[2].ret
              /\ instr.ids[6] = loads[1].ret
    /\ (last.visit = "visitAggregate" /\ last.op = "EOpAtomicMin") =>
          Back(mBuilder.block).op =
              IF last.types[1].basic = "EbtUInt" THEN "OpAtomicUMin"
              ELSE "OpAtomicSMin"
    /\ (last.visit = "visitAggregate" /\ last.op = "EOpAtomicMax") =>
          Back(mBuilder.block).op =
              IF last.types[1].basic = "EbtUInt" THEN "OpAtomicUMax"
              ELSE "OpAtomicSMax"

\* atomicCompSwap(n[1], x, y) with distinct x and y has been lowered.
C7_Witness ==
    /\ last.visit = "visitAggregate" /\ last.op = "EOpAtomicCompSwap"
    /\ last.args[1].baseId = 7
    /\ last.args[1].idList # <<>>
    /\ last.args[2] # last.args[3]
    /\ Back(mBuilder.block).op = "OpAtomicCompareExchange"
    /\ Back(mBuilder.block).ids[5] # Back(mBuilder.block).ids[6]

\* atomicMin on a uint has been lowered.
C7_WitnessMin ==
    /\ last.visit = "visitAggregate" /\ last.op = "EOpAtomicMin"
    /\ last.types[1].basic = "EbtUInt"
    /\ Back(mBuilder.block).op = "OpAtomicUMin"

\* C10 as stated: a scalar constructor of one scalar argument returns the
\* argument's id and emits nothing when the basic types agree, and emits a
\* conversion whose result it returns when they differ.
C10_AsStated ==
    (/\ last.visit = "visitAggregate" /\ last.op = "EOpConstruct"
     /\ isScalar(last.nodeType) /\ Len(last.args) = 1) =>
        LET e == mBuilder.log[Len(mBuilder.log)]
        IN  /\ e.fn = "accessChainLoad"
            /\ e.data = last.args[1]
            /\ IF last.types[1].basic = last.nodeType.basic
               THEN /\ Back(mNodeData).baseId = e.ret
                    /\ Len(mBuilder.block) = e.to
               ELSE /\ Len(mBuilder.block) = e.to + 1
                    /\ Back(mBuilder.block).ids = <<e.ret>>
                    /\ Back(mBuilder.block).result = Back(mNodeData).baseId
                    /\ Back(mBuilder.block).type = getTypeData(last.nodeType)

(***************************************************************************)
(* Properties of the binary operators.                                     *)
(***************************************************************************)
AfterOperator ==
    /\ last.visit = "visitBinary"
    /\ Len(last.args) = 2
    /\ last.nodeType # VoidType

\* The instruction whose result the operator's record holds.
OperatorInstr ==
    CHOOSE instr \in {LastEmitted[j] : j \in 1..Len(LastEmitted)} :
        instr.result = Back(mNodeData).baseId

OperatorClass(op) ==
    CASE op \in {"EOpAdd", "EOpAddAssign"} -> "Add"
      [] op \in {"EOpSub", "EOpSubAssign"} -> "Sub"
      [] op \in {"EOpMul", "EOpMulAssign"} -> "Mul"
      [] op \in {"EOpDiv", "EOpDivAssign"} -> "Div"
      [] op \in {"EOpIMod", "EOpIModAssign"} -> "Mod"
      [] op \in {"EOpEqual", "EOpEqualComponentWise"} -> "Eq"
      [] op \in {"EOpNotEqual", "EOpNotEqualComponentWise"} -> "Neq"
      [] op \in {"EOpLessThan", "EOpLessThanComponentWise"} -> "Lt"
      [] op \in {"EOpGreaterThan", "EOpGreaterThanComponentWise"} -> "Gt"
      [] op \in {"EOpLessThanEqual", "EOpLessThanEqualComponentWise"} -> "Le"
      [] op \in {"EOpGreaterThanEqual", "EOpGreaterThanEqualComponentWise"} -> "Ge"
      [] op \in {"EOpBitShiftLeft", "EOpBitShiftLeftAssign"} -> "ShiftLeft"
      [] op \in {"EOpBitShiftRight", "EOpBitShiftRightAssign"} -> "ShiftRight"
      [] OTHER -> "other"

\* The table of the operators: the opcode of each class for each basic type.
TableOpcode(class, basic) ==
    LET Pick(float, int, uint, bool) ==
            CASE basic = "EbtFloat" -> float
              [] basic = "EbtInt" -> int
              [] basic = "EbtUInt" -> uint
              [] basic = "EbtBool" -> bool
    IN  CASE class = "Add" -> Pick("OpFAdd", "OpIAdd", "OpIAdd", "-")
          [] class = "Sub" -> Pick("OpFSub", "OpISub", "OpISub", "-")
          [] class = "Mul" -> Pick("OpFMul", "OpIMul", "OpIMul", "-")
          [] class = "Div" -> Pick("OpFDiv", "OpSDiv", "OpUDiv", "-")
          [] class = "Mod" -> Pick("OpFMod", "OpSMod", "OpUMod", "-")
          [] class = "Eq" ->
                Pick("OpFOrdEqual", "OpIEqual", "OpIEqual", "OpLogicalEqual")
          [] class = "Neq" ->
                Pick("OpFUnordNotEqual", "OpINotEqual", "OpINotEqual",
                     "OpLogicalNotEqual")
          [] class = "Lt" ->
                Pick("OpFOrdLessThan", "OpSLessThan", "OpULessThan", "-")
          [] class = "Gt" ->
                Pick("OpFOrdGreaterThan", "OpSGreaterThan", "OpUGreaterThan", "-")
          [] class = "Le" ->
                Pick("OpFOrdLessThanEqual", "OpSLessThanEqual",
                     "OpULessThanEqual", "-")
          [] class = "Ge" ->
                Pick("OpFOrdGreaterThanEqual", "OpSGreaterThanEqual",
                     "OpUGreaterThanEqual", "-")
          [] class = "ShiftLeft" ->
                Pick("OpShiftLeftLogical", "OpShiftLeftLogical",
                     "OpShiftLeftLogical", "-")
          [] class = "ShiftRight" ->
                Pick("-", "OpShiftRightArithmetic", "OpShiftRightLogical", "-")

\* C8: for the operators of the table and the left basic types it allows,
\* the instruction that computes the result has the opcode of the table, the
\* compound assignment the same as the plain operator.
C8_OpcodeTable ==
    (/\ AfterOperator
     /\ OperatorClass(last.op) # "other"
     /\ TableOpcode(OperatorClass(last.op), last.types[1].basic) # "-") =>
        /\ \E j \in 1..Len(LastEmitted) :
              LastEmitted[j].result = Back(mNodeData).baseId
        /\ OperatorInstr.op = TableOpcode(OperatorClass(last.op),
                                          last.types[1].basic)
        /\ IsAssignment(last.op) => Back(mBuilder.block).op = "OpStore"

\* `x /= y` on uints has been lowered to OpUDiv and a store.
C8_Witness ==
    /\ AfterOperator
    /\ last.op = "EOpDivAssign"
    /\ last.types[1].basic = "EbtUInt"
    /\ OperatorInstr.op = "OpUDiv"
    /\ Back(mBuilder.block).op = "OpStore"

\* C9 as stated: an OpVectorTimesScalar or OpMatrixTimesScalar has the vector
\* or matrix first and the scalar second, wherever the source has the scalar,
\* and the scalar is not made a vector.
C9_AsStated ==
    (/\ AfterOperator
     /\ last.op \in {"EOpVectorTimesScalar", "EOpVectorTimesScalarAssign",
                     "EOpMatrixTimesScalar", "EOpMatrixTimesScalarAssign"}
     /\ OperatorInstr.op \in {"OpVectorTimesScalar", "OpMatrixTimesScalar"}) =>
        LET scalarOnLeft == isScalar(last.types[1])
            composite == IF scalarOnLeft THEN last.args[2] ELSE last.args[1]
            scalar == IF scalarOnLeft THEN last.args[1] ELSE last.args[2]
        IN  /\ OperatorInstr.ids[1] \in LoadOf(composite)
            /\ OperatorInstr.ids[2] \in LoadOf(scalar)
            /\ CountOp(LastEmitted, "OpCompositeConstruct") = 0

(***************************************************************************)
(* Properties of the matrix constructors.                                  *)
(***************************************************************************)
AfterMatrixConstruct ==
    /\ last.visit = "visitAggregate" /\ last.op = "EOpConstruct"
    /\ isMatrix(last.nodeType) /\ Len(last.args) = 1
    /\ mBuilder.log # <<>>

\* The load of the constructor's argument, and what was emitted after it.
ConstructArgument == mBuilder.log[Len(mBuilder.log)]

ConstructEmitted ==
    SubSeq(mBuilder.block, ConstructArgument.to + 1, Len(mBuilder.block))

\* C11 as stated: matNxM(s) emits N column OpCompositeConstructs of M
\* components each, column j with s at row j (when j < M) and the zero
\* constant at every other row, then one OpCompositeConstruct of the N
\* columns, and no component list is indexed outside 0..M-1.
C11_AsStated ==
    (AfterMatrixConstruct /\ isScalar(last.types[1])) =>
        LET N == last.nodeType.primarySize
            M == last.nodeType.secondarySize
            s == ConstructArgument.ret
            out == ConstructEmitted
        IN  /\ mBuilder.failure = "none"
            /\ Len(out) = N + 1
            /\ \A j \in 1..N :
                  /\ out[j].op = "OpCompositeConstruct"
                  /\ Len(out[j].ids) = M
                  /\ \A r \in 1..M :
                        out[j].ids[r] = IF r = j THEN s
                                        ELSE ZeroConstant(last.nodeType.basic)
            /\ out[N + 1].op = "OpCompositeConstruct"
            /\ out[N + 1].ids = [j \in 1..N |-> out[j].result]

\* C12 as stated: matNxM(m) of a matrix m of S columns and R rows that is
\* not at least as large as the target in both dimensions has at (c, r) the
\* component (c, r) of m when c < S and r < R, and otherwise the constant 1
\* when c = r and the constant 0 when c # r; every OpCompositeExtract on m
\* has a column index < S and a row index < R.
C12_AsStated ==
    (/\ AfterMatrixConstruct /\ isMatrix(last.types[1])
     /\ ~(/\ last.types[1].primarySize >= last.nodeType.primarySize
          /\ last.types[1].secondarySize >= last.nodeType.secondarySize)) =>
        LET N == last.nodeType.primarySize
            M == last.nodeType.secondarySize
            S == last.types[1].primarySize
            R == last.types[1].secondarySize
            m == ConstructArgument.ret
            out == ConstructEmitted
            result == out[Len(out)]
        IN  /\ Len(out) >= N + 1
            /\ result.op = "OpCompositeConstruct"
            /\ Len(result.ids) = N
            /\ \A c \in 0..(N - 1) :
                  \E k \in 1..Len(out) :
                     /\ out[k].result = result.ids[c + 1]
                     /\ out[k].op = "OpCompositeConstruct"
                     /\ Len(out[k].ids) = M
                     /\ \A r \in 0..(M - 1) :
                           IF c < S /\ r < R
                           THEN \E e \in 1..Len(out) :
                                   /\ out[e].op = "OpCompositeExtract"
                                   /\ out[e].result = out[k].ids[r + 1]
                                   /\ out[e].ids = <<m>>
                                   /\ out[e].lits = <<c, r>>
                           ELSE out[k].ids[r + 1] =
                                   getFloatConstant(IF c = r THEN 1 ELSE 0)
            /\ \A e \in 1..Len(out) :
                  out[e].op = "OpCompositeExtract" =>
                     out[e].lits[1] < S /\ out[e].lits[2] < R

(***************************************************************************)
(* Properties of the control flow and of the translation unit.             *)
(***************************************************************************)
\* The instructions that end a block.
IsTerminator(instr) ==
    instr.op \in {"OpBranch", "OpBranchConditional", "OpSwitch", "OpReturn",
                  "OpReturnValue", "OpKill", "OpUnreachable"}

\* The last visit was visitIfElse at the end of the body of a branch.
AfterBranchBody ==
    /\ last.visit = "visitIfElse"
    /\ last.op \in {"InVisit", "PostVisit"}
    /\ last.params # <<0>>

\* The block that visit has closed.
ClosedBranchBody == Back(mBuilder.blocks).body

\* C13: at the end of the body of a branch of an if/else the OpBranch to
\* the merge block is appended exactly when the body falls through: the
\* closed block has no terminator before its last instruction (a body that
\* ends in a return gets nothing after the return), and the assertion that
\* the block is not terminated does not fail.
C13_AsStated ==
    AfterBranchBody =>
        /\ mBuilder.failure # "visitIfElse"
        /\ \A k \in 1..(Len(ClosedBranchBody) - 1) :
              ~IsTerminator(ClosedBranchBody[k])

\* The functions section: what is not an instruction of a block.
IsBlockBoundary(instr) ==
    instr.op \in {"OpFunction", "OpFunctionParameter", "OpLabel", "OpFunctionEnd"}

\* The place of the label of the last block of the functions section.
LastLabel ==
    CHOOSE k \in 1..Len(mBuilder.mSpirvFunctions) :
        /\ mBuilder.mSpirvFunctions[k].op = "OpLabel"
        /\ \A j \in (k + 1)..Len(mBuilder.mSpirvFunctions) :
              mBuilder.mSpirvFunctions[j].op # "OpLabel"

\* The last visit ended a function and added an OpReturn of its own.
SynthesisedReturn ==
    /\ last.visit = "visitFunctionDefinition"
    /\ last.op = "PostVisit"
    /\ Len(mBuilder.mSpirvFunctions) - 1 - LastLabel = last.from + 1

\* C14: every block of an assembled function ends with exactly one
\* terminator, which is its last instruction (so nothing follows a
\* terminator inside a block and no block is left without one), and the
\* OpReturn added at the end of a function is added only when the block was
\* not terminated and the function returns void.
C14_AsStated ==
    LET code == mBuilder.mSpirvFunctions
    IN  /\ \A k \in 1..Len(code) :
              /\ ~IsBlockBoundary(code[k]) =>
                    (IsTerminator(code[k]) <=>
                        code[k + 1].op \in {"OpLabel", "OpFunctionEnd"})
              /\ code[k].op = "OpLabel" => ~IsBlockBoundary(code[k + 1])
        /\ SynthesisedReturn =>
              /\ last.nodeType.basic = "EbtVoid"
              /\ last.from > 0 => ~IsTerminator(code[LastLabel + last.from])

\* C16: when the traversal met a node the generator does not implement,
\* OutputSPIRV does not return success and the blob it stored is empty.
C16_AsStated ==
    (pc = "returned" /\ mBuilder.failure = "UNIMPLEMENTED") =>
        /\ mBuilder.result # "true"
        /\ mBuilder.binary = <<>>

\* The ids the OpFunction instructions of the functions section define.
DefinedFunctionIds ==
    {mBuilder.mSpirvFunctions[k].result :
        k \in {j \in 1..Len(mBuilder.mSpirvFunctions) :
                  mBuilder.mSpirvFunctions[j].op = "OpFunction"}}

\* C17: once every function of the unit is defined, each OpFunctionCall
\* names the id an OpFunction defines, also when the call came before the
\* definition, and no call failed the assertion of the symbol lookup.
C17_AsStated ==
    (pc = "returned" /\ IsDefined("f")) =>
        /\ mBuilder.failure # "createFunctionCall"
        /\ \A k \in 1..Len(mBuilder.mSpirvFunctions) :
              mBuilder.mSpirvFunctions[k].op = "OpFunctionCall" =>
                 mBuilder.mSpirvFunctions[k].ids[1] \in DefinedFunctionIds

(***************************************************************************)
(* Properties of the built-in variables.                                   *)
(***************************************************************************)
\* How many variables carry the name of the built-in of a qualifier, how
\* many decorations name it and how many interface entries are its id.
BuiltInDeclarations(st, qualifier) ==
    Cardinality({k \in 1..Len(st.variables) :
                    st.variables[k].name = ImplicitBuiltIn(qualifier).name})

BuiltInDecorations(st, qualifier) ==
    Cardinality({k \in 1..Len(st.mSpirvDecorations) :
                    st.mSpirvDecorations[k].lits =
                        <<"BuiltIn", ImplicitBuiltIn(qualifier).builtIn>>})

BuiltInInterfaceEntries(st, qualifier) ==
    Cardinality({k \in 1..Len(st.mEntryPointInterfaceList) :
                    st.mEntryPointInterfaceList[k] =
                        SymbolId(st, VariableSymbol(ImplicitBuiltIn(qualifier).name))})

\* Whether the built-in of a qualifier has been referenced.
IsReferenced(st, qualifier) ==
    SymbolCount(st, VariableSymbol(ImplicitBuiltIn(qualifier).name)) > 0

\* A built-in that was referenced has one variable, one decoration of that
\* variable and one interface entry; one that was not has none.
BuiltInsDeclaredOnce ==
    \A qualifier \in ImplicitBuiltInQualifiers :
        LET count == IF IsReferenced(mBuilder, qualifier) THEN 1 ELSE 0
            id == SymbolId(mBuilder, VariableSymbol(ImplicitBuiltIn(qualifier).name))
        IN  /\ BuiltInDeclarations(mBuilder, qualifier) = count
            /\ BuiltInDecorations(mBuilder, qualifier) = count
            /\ BuiltInInterfaceEntries(mBuilder, qualifier) = count
            /\ \A k \in 1..Len(mBuilder.variables) :
                  mBuilder.variables[k].name = ImplicitBuiltIn(qualifier).name =>
                     mBuilder.variables[k].id = id
            /\ \A k \in 1..Len(mBuilder.mSpirvDecorations) :
                  mBuilder.mSpirvDecorations[k].lits =
                      <<"BuiltIn", ImplicitBuiltIn(qualifier).builtIn>> =>
                     mBuilder.mSpirvDecorations[k].ids = <<id>>

\* A reference hands out the id the map holds and writes no instruction.
ReferenceReturnsMapped ==
    last.visit = "visitSymbol" =>
        /\ Back(mNodeData).baseId =
              SymbolId(mBuilder, VariableSymbol(ImplicitBuiltIn(last.op).name))
        /\ Back(mNodeData).baseId # NoId
        /\ Len(mBuilder.block) = last.from

\* A step leaves a built-in that was referenced before as it is: its id,
\* the variables, the decorations and the interface list grow by nothing of
\* it, and a reference to it adds nothing at all.
LaterReferenceEmitsNothing ==
    \A qualifier \in ImplicitBuiltInQualifiers :
        IsReferenced(mBuilder, qualifier) =>
            /\ SymbolId(mBuilder', VariableSymbol(ImplicitBuiltIn(qualifier).name))
                  = SymbolId(mBuilder, VariableSymbol(ImplicitBuiltIn(qualifier).name))
            /\ (last'.visit = "visitSymbol" /\ last'.op = qualifier) =>
                  /\ mBuilder'.variables = mBuilder.variables
                  /\ mBuilder'.mSpirvDecorations = mBuilder.mSpirvDecorations
                  /\ mBuilder'.mEntryPointInterfaceList =
                        mBuilder.mEntryPointInterfaceList
                  /\ mBuilder'.nextId = mBuilder.nextId
                  /\ mBuilder'.block = mBuilder.block

\* C15: each implicit built-in that is referenced gets exactly one variable,
\* one BuiltIn decoration and one interface entry, made at its first
\* reference; every later reference yields the same id and emits nothing.
C15_BuiltInOnce ==
    /\ [](BuiltInsDeclaredOnce /\ ReferenceReturnsMapped)
    /\ [][LaterReferenceEmitsNothing]_vars

\* Two built-ins were defined and the last visit referred to one of them
\* again.
C15_Witness ==
    /\ last.visit = "visitSymbol"
    /\ last.vars = Len(mBuilder.variables)
    /\ Len(mBuilder.variables) = 2
    /\ Len(mBuilder.mEntryPointInterfaceList) = 2

(***************************************************************************)
(* Properties of accessChainCollapse and of the loads of rvalues.          *)
(***************************************************************************)
IsCollapse(e) == e.fn = "accessChainCollapse"

\* The index operands of the chain of a record: its indices in the order
\* they were pushed, a literal as the uint constant of its value.
IndexOperands(data) ==
    [k \in 1..Len(data.idList) |->
        IF data.idList[k].id = NoId
        THEN UintConstantBase + data.idList[k].literal
        ELSE data.idList[k].id]

\* What one call of accessChainCollapse does.
CollapsesOnce(e) ==
    LET data == e.data
        out == Emitted(e)
    IN  IF data.accessChain.accessChainId # NoId
        THEN /\ e.ret = data.accessChain.accessChainId
             /\ out = <<>>
             /\ e.after = data
        ELSE IF data.idList = <<>>
        THEN /\ e.ret = data.baseId
             /\ out = <<>>
             /\ e.after.accessChain.accessChainId = data.baseId
        ELSE /\ Len(out) = 1
             /\ out[1].op = "OpAccessChain"
             /\ out[1].type = [data.accessChain.preSwizzleTypeId EXCEPT
                                  !.storageClass = data.accessChain.storageClass]
             /\ out[1].ids = <<data.baseId>> \o IndexOperands(data)
             /\ out[1].result = e.ret
             /\ e.ret # data.baseId
             /\ e.after.accessChain.accessChainId = e.ret

\* C18: accessChainCollapse of an lvalue is idempotent.  Without indices it
\* yields base_id and emits nothing; with indices the first call emits one
\* OpAccessChain on base_id, of the pointer type to the pre-swizzle type in
\* the chain's storage class, with the indices in push order (literals as
\* uint constants); a later call on the record the first one left, such as
\* the store after the load of a compound assignment, yields the same id
\* and emits no further OpAccessChain.
C18_CollapseIdempotent ==
    /\ \A k \in 1..Len(mBuilder.log) :
          IsCollapse(mBuilder.log[k]) /\ ~IsAccessChainRValue(mBuilder.log[k].data.accessChain)
              => CollapsesOnce(mBuilder.log[k])
    /\ \A j, k \in 1..Len(mBuilder.log) :
          (/\ j < k
           /\ IsCollapse(mBuilder.log[j])
           /\ IsCollapse(mBuilder.log[k])
           /\ ~IsAccessChainRValue(mBuilder.log[j].data.accessChain)
           /\ mBuilder.log[k].data = mBuilder.log[j].after) =>
              /\ mBuilder.log[k].ret = mBuilder.log[j].ret
              /\ CountOp(Emitted(mBuilder.log[k]), "OpAccessChain") = 0
              /\ Emitted(mBuilder.log[k]) = <<>>

\* `a[1] += ...`: the load collapsed the chain of `a[1]` into an
\* OpAccessChain and the store collapsed the record again.
C18_Witness ==
    \E j, k \in 1..Len(mBuilder.log) :
        /\ j < k
        /\ IsCollapse(mBuilder.log[j])
        /\ IsCollapse(mBuilder.log[k])
        /\ mBuilder.log[j].data.baseId = 2
        /\ mBuilder.log[j].data.idList # <<>>
        /\ mBuilder.log[j].data.accessChain.accessChainId = NoId
        /\ Len(Emitted(mBuilder.log[j])) = 1
        /\ mBuilder.log[k].data = mBuilder.log[j].after
        /\ last.op = "EOpAddAssign"

\* A load through an rvalue at least one of whose indices is not a literal.
IsIndexedRValueLoad(e) ==
    /\ e.fn = "accessChainLoad"
    /\ IsAccessChainRValue(e.data.accessChain)
    /\ \E k \in 1..Len(e.data.idList) : e.data.idList[k].id # NoId

\* The temporary variable such a load declares.
LoadTemporary(e) == mBuilder.variables[e.varsFrom + 1]

\* C19: a load through an rvalue with at least one index that is not a
\* literal declares a fresh variable of the Function storage class, stores
\* base_id into it, makes one OpAccessChain on it with all the indices and
\* loads through that chain, in this order; afterwards the record is an
\* lvalue whose base_id is the variable and whose storage class is Function.
C19_IndexedRValueLoad ==
    \A k \in 1..Len(mBuilder.log) :
        IsIndexedRValueLoad(mBuilder.log[k]) =>
            LET e == mBuilder.log[k]
                out == Emitted(e)
                temp == LoadTemporary(e)
            IN  /\ e.varsTo = e.varsFrom + 1
                /\ temp.storageClass = "Function"
                /\ temp.type = e.data.accessChain.preSwizzleTypeId
                /\ \A j \in 1..e.varsFrom : mBuilder.variables[j].id # temp.id
                /\ temp.id # e.data.baseId
                /\ Len(out) >= 3
                /\ out[1].op = "OpStore"
                /\ out[1].ids = <<temp.id, e.data.baseId>>
                /\ out[2].op = "OpAccessChain"
                /\ out[2].ids = <<temp.id>> \o IndexOperands(e.data)
                /\ out[3].op = "OpLoad"
                /\ out[3].ids = <<out[2].result>>
                /\ CountOp(out, "OpStore") = 1
                /\ CountOp(out, "OpAccessChain") = 1
                /\ CountOp(out, "OpLoad") = 1
                /\ e.after.baseId = temp.id
                /\ e.after.accessChain.storageClass = "Function"
                /\ ~IsAccessChainRValue(e.after.accessChain)

\* `ca[i]` has been loaded, ca the constant array and i a variable.
C19_Witness ==
    \E k \in 1..Len(mBuilder.log) :
        /\ IsIndexedRValueLoad(mBuilder.log[k])
        /\ mBuilder.log[k].data.baseId = 4
        /\ Len(mBuilder.log[k].data.idList) = 1
        /\ mBuilder.log[k].varsTo = mBuilder.log[k].varsFrom + 1

\* C20: no record on the stack has a dynamic component together with
\* pending swizzles, whatever was pushed, and the assertion of
\* accessChainLoad about it does not fail.
C20_AsStated ==
    /\ \A k \in 1..Len(mNodeData) :
          ~(/\ mNodeData[k].accessChain.dynamicComponent # NoId
            /\ mNodeData[k].accessChain.swizzles # <<>>)
    /\ mBuilder.failure # "accessChainLoad"

(***************************************************************************)
(* Stores, the types of a record and the assignment operators.             *)
(***************************************************************************)
IsStore(e) == e.fn = "accessChainStore"

\* accessChainStore of a value through the record, the builder having no
\* failed assertion yet: an assertion fails, and the block is as it was when
\* accessChainCollapse, the first step that may write, is entered.
StoreFailsFirst(data) ==
    LET st == [mBuilder EXCEPT !.failure = "none", !.log = <<>>]
    IN  Bind(accessChainStore(data, st.nextId, st), LAMBDA r :
             /\ r.st.failure \in {"accessChainStore", "accessChainCollapse"}
             /\ r.st.log[1].fn = "accessChainCollapse"
             /\ r.st.log[1].from = Len(mBuilder.block))

\* C21: every store the traversal makes (assignment, compound assignment,
\* copy-back of an out or inout parameter) goes through an lvalue record; and
\* a store through any rvalue record the traversal holds would fail an
\* assertion before an instruction is written.
C21_StoreOnLValue ==
    /\ \A k \in 1..Len(mBuilder.log) :
          IsStore(mBuilder.log[k]) =>
              ~IsAccessChainRValue(mBuilder.log[k].data.accessChain)
    /\ \A k \in 1..Len(mNodeData) :
          IsAccessChainRValue(mNodeData[k].accessChain) =>
              StoreFailsFirst(mNodeData[k])

\* `v.zx += u` has stored through the lvalue v.zx and left an rvalue record,
\* through which a store would fail.
C21_Witness ==
    /\ last.visit = "visitBinary" /\ last.op = "EOpAddAssign"
    /\ \E k \in 1..Len(mBuilder.log) :
          /\ IsStore(mBuilder.log[k])
          /\ mBuilder.log[k].data.accessChain.swizzles = <<2, 0>>
    /\ mNodeData # <<>>
    /\ IsAccessChainRValue(Back(mNodeData).accessChain)
    /\ StoreFailsFirst(Back(mNodeData))

\* Whether the record's types are those of its pending swizzle: the vector that
\* is swizzled and the vector the swizzle makes of it.
SwizzleTypesAgree(accessChain) ==
    /\ accessChain.preSwizzleTypeId.primarySize =
           accessChain.swizzledVectorComponentCount
    /\ accessChain.preSwizzleTypeId.secondarySize = 1
    /\ accessChain.preSwizzleTypeId.arraySize = 0
    /\ accessChain.postSwizzleTypeId =
           [accessChain.preSwizzleTypeId EXCEPT
               !.primarySize = Len(accessChain.swizzles)]

\* C22 as stated: whenever a record has more than one swizzle entry, its
\* preSwizzleTypeId is the type of the vector being swizzled and its
\* postSwizzleTypeId the type of the swizzled result, also after an index is
\* pushed behind the swizzle.
C22_AsStated ==
    \A k \in 1..Len(mNodeData) :
        Len(mNodeData[k].accessChain.swizzles) > 1 =>
            SwizzleTypesAgree(mNodeData[k].accessChain)

\* The calls of an access chain operation logged in the last visit, in order.
CallsOf(fn) == SelectSeq(mBuilder.log, LAMBDA e : e.fn = fn)

\* visitBinary has handled an assignment operator at PostVisit.
AfterAssignment ==
    /\ last.visit = "visitBinary"
    /\ IsAssignment(last.op) /\ last.op # "EOpInitialize"
    /\ Len(last.args) = 2

IsUnindexedRValue(data) ==
    /\ IsAccessChainRValue(data.accessChain)
    /\ data.idList = <<>>
    /\ data.accessChain.swizzles = <<>>
    /\ data.accessChain.dynamicComponent = NoId

\* The call stores through the access chain of the record: its last
\* instruction is its only OpStore, to the pointer of the chain.
StoresThroughChain(e) ==
    /\ Emitted(e) # <<>>
    /\ CountOp(Emitted(e), "OpStore") = 1
    /\ Back(Emitted(e)).op = "OpStore"
    /\ e.after.accessChain.accessChainId # NoId
    /\ Back(Emitted(e)).ids[1] = e.after.accessChain.accessChainId

\* `lhs = rhs`: the right record is loaded, the loaded id is stored through
\* the left record, and the record left is the loaded id as an rvalue.
SimpleAssignment ==
    LET loads == CallsOf("accessChainLoad")
        stores == CallsOf("accessChainStore")
    IN  /\ Len(loads) = 1 /\ Len(stores) = 1
        /\ loads[1].data = last.args[2]
        /\ stores[1].data = last.args[1]
        /\ stores[1].value = loads[1].ret
        /\ loads[1].to <= stores[1].from
        /\ StoresThroughChain(stores[1])
        /\ Len(mNodeData) >= 1
        /\ IsUnindexedRValue(Back(mNodeData))
        /\ Back(mNodeData).baseId = loads[1].ret

\* `lhs op= rhs`: the right record is loaded, then the left record once; the
\* result of the instruction written after the loads is stored through the
\* chain the left load made, and the record left is that result as an rvalue.
CompoundAssignment ==
    LET loads == CallsOf("accessChainLoad")
        stores == CallsOf("accessChainStore")
    IN  /\ Len(loads) = 2 /\ Len(stores) = 1
        /\ loads[1].data = last.args[2]
        /\ loads[2].data = last.args[1]
        /\ loads[1].to <= loads[2].from
        /\ loads[2].to < stores[1].from
        /\ stores[1].data = loads[2].after
        /\ mBuilder.block[stores[1].from].op =
               BinaryOpcode(last.op, last.types[1].basic = "EbtFloat",
                            last.types[1].basic = "EbtUInt",
                            last.types[1].basic = "EbtBool")
        /\ stores[1].value = mBuilder.block[stores[1].from].result
        /\ StoresThroughChain(stores[1])
        /\ stores[1].after.accessChain.accessChainId =
               loads[2].after.accessChain.accessChainId
        /\ CountOp(Emitted(stores[1]), "OpAccessChain") = 0
        /\ Len(mNodeData) >= 1
        /\ IsUnindexedRValue(Back(mNodeData))
        /\ Back(mNodeData).baseId = stores[1].value

\* C23: after visitBinary handles `lhs = rhs` the right operand has been
\* loaded, one store through the left chain has been emitted and the record
\* left is an unindexed rvalue whose baseId is the loaded id; after
\* `lhs op= rhs` the left operand has been loaded once, the result of the
\* operation stored through the same chain, and the record left is an
\* unindexed rvalue whose baseId is that result.
C23_Assignment ==
    AfterAssignment =>
        IF last.op = "EOpAssign" THEN SimpleAssignment ELSE CompoundAssignment

\* `a[1].zx += u` has been lowered: the store reuses the pointer of the load.
C23_Witness ==
    /\ AfterAssignment /\ last.op = "EOpAddAssign"
    /\ last.args[1].baseId = 2
    /\ last.args[1].idList # <<>>
    /\ last.args[1].accessChain.swizzles = <<2, 0>>
    /\ CompoundAssignment

\* `v.zx = u` has been lowered and has left the loaded value of u.
C23_WitnessAssign ==
    /\ AfterAssignment /\ last.op = "EOpAssign"
    /\ last.args[1].accessChain.swizzles = <<2, 0>>
    /\ SimpleAssignment

(***************************************************************************)
(* The balance of the stack, the types of loads and stores, constants and  *)
(* the order of evaluation.                                                *)
(***************************************************************************)
\* Whether a statement of a block inside a function has just been traversed
\* and the block has not been visited after it.
AfterStatement ==
    /\ pc \in {"chain", "end"}
    /\ path # <<>>
    /\ Back(path).node = "block"

\* C24: the stack is balanced: a statement that has been traversed as a
\* child of a block inside a function (an expression, a declaration, a
\* return, a block opened for scoping, empty or not) has left exactly one
\* record above those of the block for the block to pop, the stack is never
\* popped while empty, and it is empty once the whole unit is traversed.
C24_AsStated ==
    /\ AfterStatement => Len(mNodeData) = Back(path).base + 1
    /\ mBuilder.failure # "mNodeData.pop_back()"
    /\ pc = "returned" => mNodeData = <<>>

\* The assertions of the traverser on the depth of the stack: visitBinary
\* at InVisit and at PostVisit, visitAggregate at PostVisit.
StackDepthAssertions == {"visitBinary InVisit", "visitBinary", "visitAggregate"}

\* C28: every assertion on the depth of the stack holds: when visitBinary
\* has run at InVisit of a node, the initialization of a declared variable
\* at module scope included, the stack held at least one record, and no
\* such assertion has failed at any visit.
C28_AsStated ==
    /\ (last.visit = "visitBinary" /\ pc = "operand") => mNodeData # <<>>
    /\ mBuilder.failure \notin StackDepthAssertions

\* The type of the value accessChainLoad returns for a record: the result
\* type of the last instruction it writes, which defines the value, and the
\* type the record was given when it writes none and returns the base.
LoadedTypeId(data) ==
    Bind(accessChainLoadBody(data, mBuilder), LAMBDA r :
         IF Len(r.st.block) > Len(mBuilder.block) THEN Back(r.st.block).type
         ELSE data.accessChain.preSwizzleTypeId)

\* C25: for every record of the stack that has been initialized and pushed
\* onto, getAccessChainTypeId is the type of the value accessChainLoad
\* returns for it; after a swizzle of several components has been folded
\* with a dynamic index on an lvalue it is the scalar type.
C25_AsStated ==
    \A k \in 1..Len(mNodeData) :
       mNodeData[k].baseId # NoId =>
          getAccessChainTypeId(mNodeData[k]) = LoadedTypeId(mNodeData[k])

\* C26: in a store through a pending swizzle of several components, the
\* OpVectorShuffle that merges the loaded vector with the new value has the
\* type of the whole destination vector, the type before the swizzle, as
\* the OpLoad before it has, and its result is the value of the OpStore.
C26_AsStated ==
    \A k \in 1..Len(mBuilder.log) :
       LET e == mBuilder.log[k]
           out == Emitted(e)
       IN  (IsStore(e) /\ Len(e.data.accessChain.swizzles) > 1) =>
              \A j \in 1..Len(out) :
                 out[j].op = "OpVectorShuffle" =>
                    /\ out[j].type = e.data.accessChain.preSwizzleTypeId
                    /\ j > 1 /\ out[j - 1].op = "OpLoad"
                    /\ out[j].type = out[j - 1].type
                    /\ j < Len(out) /\ out[j + 1].op = "OpStore"
                    /\ out[j + 1].ids[2] = out[j].result

\* A load of an rvalue that has an index that is not a literal, the rvalue
\* being a constant symbol.
IsSpillingLoad(e) ==
    /\ e.fn = "accessChainLoad"
    /\ \E symbol \in ChainSymbols : symbol.id = e.data.baseId
    /\ IsAccessChainRValue(e.data.accessChain)
    /\ e.data.idList # <<>>
    /\ ~e.data.accessChain.areAllIndicesLiteral

\* The type of the value a record of a constant symbol was initialized with.
BaseValueTypeId(data) ==
    getTypeData((CHOOSE symbol \in ChainSymbols : symbol.id = data.baseId).type)

\* C27: a load that spills an rvalue with an index that is not a literal
\* declares one temporary of class Function whose type is the type of the
\* base value, the one the record was initialized with before any index was
\* pushed, and first stores the base value into it.
C27_AsStated ==
    \A k \in 1..Len(mBuilder.log) :
       LET e == mBuilder.log[k]
       IN  IsSpillingLoad(e) =>
              /\ e.varsTo = e.varsFrom + 1
              /\ mBuilder.variables[e.varsTo].storageClass = "Function"
              /\ mBuilder.variables[e.varsTo].type = BaseValueTypeId(e.data)
              /\ Emitted(e) # <<>>
              /\ Emitted(e)[1].op = "OpStore"
              /\ Emitted(e)[1].ids = <<mBuilder.variables[e.varsTo].id, e.data.baseId>>

\* The constant declared with the result id, when it is a composite.
CompositeConstants(id) ==
    {k \in 1..Len(mBuilder.constants) :
        /\ mBuilder.constants[k].op = "OpConstantComposite"
        /\ mBuilder.constants[k].result = id}

\* C29: the record visitConstantUnion leaves for a constant that is not a
\* struct holds, for a scalar, the scalar constant of the expected basic
\* type, and otherwise a composite constant of the type of the node that
\* has one constituent for each direct member of the type: each component
\* of a vector, cast to the expected basic type, each column of a matrix,
\* each element of an array.
C29_AsStated ==
    last.visit = "visitConstantUnion" =>
       LET type == last.nodeType
           constUnion == last.args[1]
           id == Back(mNodeData).baseId
       IN  IF isScalar(type)
           THEN id = ComponentConstant(last.op, constUnion[1])
           ELSE /\ Cardinality(CompositeConstants(id)) = 1
                /\ \A k \in CompositeConstants(id) :
                      /\ mBuilder.constants[k].type = getTypeData(type)
                      /\ Len(mBuilder.constants[k].ids) = IndexableSize(type)
                      /\ (isVector(type) /\ ~isArray(type)) =>
                            \A j \in 1..type.primarySize :
                               mBuilder.constants[k].ids[j] =
                                  ComponentConstant(last.op, constUnion[j])

\* visitBinary has evaluated, at PostVisit, an operator of OrderOps that is
\* the whole statement and whose left operand is a variable.
AfterOperatorOnVariable ==
    /\ last.visit = "visitBinary"
    /\ last.op \in OrderOps
    /\ Len(last.args) = 2
    /\ path = <<>>
    /\ ~IsAccessChainRValue(last.args[1].accessChain)
    /\ last.args[1].idList = <<>>

\* The loads of the left operand in the last visit.
LeftLoads ==
    {k \in 1..Len(mBuilder.log) :
        /\ mBuilder.log[k].fn = "accessChainLoad"
        /\ mBuilder.log[k].data = last.args[1]}

\* C30: when an arithmetic, comparison or bitwise operator whose left
\* operand is a variable has been evaluated, the OpLoad of the left operand
\* stands in the block before every instruction written during the
\* traversal of the right operand, so that no store of the right operand
\* precedes it.
C30_AsStated ==
    AfterOperatorOnVariable =>
       /\ LeftLoads # {}
       /\ \A k \in LeftLoads :
             /\ mBuilder.block[mBuilder.log[k].to].op = "OpLoad"
             /\ \A j \in 1..last.from : mBuilder.log[k].to < j

====
